---- MODULE Spec2Model ----
(***************************************************************************)
(* Model of the attachment-delete plugin (SmartDeletePlugin): the link     *)
(* locator, the reference counter, the cascade folder calculator, the      *)
(* confirmation gate and the single-flight deletion orchestrator.          *)
(*                                                                         *)
(* Strings of the program are sequences of characters (UTF-16 code units),  *)
(* so that split, trim, includes, toLowerCase, parseInt, decodeURIComponent *)
(* and the link regexes are computed. A printable ASCII character, tab,    *)
(* line feed, form feed and carriage return are the one-character string;  *)
(* any other code unit, and the grave accent, is the string "U+" with its  *)
(* four hexadecimal digits.                                                *)
(* Vault nodes are identified by their path.                               *)
(***************************************************************************)
EXTENDS Integers, Sequences, FiniteSets, TLC

(***************************************************************************)
(* Bounds of the model.                                                    *)
(***************************************************************************)
\* number of menu requests (right-click + "delete attachment") in a behaviour
MaxRequests == 2
\* largest warningThreshold the settings are drawn from
MaxThreshold == 3
\* calls of saveData that can be in flight at once
MaxSaves == 2
\* calls of onload in a behaviour, the one before Init included
MaxLoads == 2

Null == "null"

(***************************************************************************)
(* String helpers (JavaScript String methods).                             *)
(***************************************************************************)
Min(a, b) == IF a <= b THEN a ELSE b

\* s[i] with JavaScript's 0-based index; "" past the end
At(s, i) == IF i >= 0 /\ i < Len(s) THEN s[i + 1] ELSE ""

\* s.slice(from, to) for 0 <= from
Slice(s, from, to) == SubSeq(s, from + 1, to)

\* s.startsWith(sub, i)
StartsAt(s, sub, i) ==
    /\ i >= 0
    /\ i + Len(sub) <= Len(s)
    /\ SubSeq(s, i + 1, i + Len(sub)) = sub

\* s.includes(sub)
Includes(s, sub) == \E i \in 0..Len(s) : StartsAt(s, sub, i)

RECURSIVE IndexOf(_, _, _)
\* s.indexOf(sub, from), -1 when absent
IndexOf(s, sub, from) ==
    IF from + Len(sub) > Len(s) THEN -1
    ELSE IF StartsAt(s, sub, from) THEN from
    ELSE IndexOf(s, sub, from + 1)

\* the printable ASCII characters, U+0020 to U+007E (the grave accent, which a
\* string of the module cannot hold, by its code)
Ascii ==
    <<" ", "!", "\"", "#", "$", "%", "&", "'", "(", ")", "*", "+", ",", "-", ".", "/",
      "0", "1", "2", "3", "4", "5", "6", "7", "8", "9", ":", ";", "<", "=", ">", "?",
      "@", "A", "B", "C", "D", "E", "F", "G", "H", "I", "J", "K", "L", "M", "N", "O",
      "P", "Q", "R", "S", "T", "U", "V", "W", "X", "Y", "Z", "[", "\\", "]", "^", "_",
      "U+0060", "a", "b", "c", "d", "e", "f", "g", "h", "i", "j", "k", "l", "m", "n", "o",
      "p", "q", "r", "s", "t", "u", "v", "w", "x", "y", "z", "{", "|", "}", "~">>

HexDigits ==
    <<"0", "1", "2", "3", "4", "5", "6", "7", "8", "9", "A", "B", "C", "D", "E", "F">>

\* String.fromCharCode(n): the character of the code unit n
CodeUnit(n) ==
    IF n \in 32..126 THEN Ascii[n - 31]
    ELSE IF n = 9 THEN "\t"
    ELSE IF n = 10 THEN "\n"
    ELSE IF n = 12 THEN "\f"
    ELSE IF n = 13 THEN "\r"
    ELSE "U+" \o HexDigits[((n \div 4096) % 16) + 1] \o HexDigits[((n \div 256) % 16) + 1]
              \o HexDigits[((n \div 16) % 16) + 1] \o HexDigits[(n % 16) + 1]

\* the code units of a code point: one, or the surrogate pair above U+FFFF
CodeUnits(cp) ==
    IF cp < 65536 THEN <<CodeUnit(cp)>>
    ELSE <<CodeUnit(55296 + ((cp - 65536) \div 1024)),
           CodeUnit(56320 + ((cp - 65536) % 1024))>>

\* the characters in the order of their code units, from U+0000
Characters == [n \in 1..65536 |-> CodeUnit(n - 1)] \o <<>>

\* c.charCodeAt(0): the code unit of a character
CharCode ==
    [c \in STRING |->
        IF Len(c) = 1 THEN (CHOOSE n \in 10..127 : c = Characters[n]) - 1
        ELSE (CHOOSE n \in 1..65536 : c = Characters[n]) - 1]

\* the simple lower-case mappings of the Unicode Character Database (UnicodeData,
\* version 17.0): each <<first, last, step, delta>> gives first, first + step, ...,
\* last the lower-case letter delta above them
LowerCaseRanges ==
    <<<<65, 90, 1, 32>>, <<192, 214, 1, 32>>, <<216, 222, 1, 32>>, <<256, 302, 2, 1>>,
      <<306, 310, 2, 1>>, <<313, 327, 2, 1>>, <<330, 374, 2, 1>>, <<376, 376, 1, -121>>,
      <<377, 381, 2, 1>>, <<385, 385, 1, 210>>, <<386, 388, 2, 1>>, <<390, 390, 1, 206>>,
      <<391, 391, 1, 1>>, <<393, 394, 1, 205>>, <<395, 395, 1, 1>>, <<398, 398, 1, 79>>,
      <<399, 399, 1, 202>>, <<400, 400, 1, 203>>, <<401, 401, 1, 1>>, <<403, 403, 1, 205>>,
      <<404, 404, 1, 207>>, <<406, 406, 1, 211>>, <<407, 407, 1, 209>>, <<408, 408, 1, 1>>,
      <<412, 412, 1, 211>>, <<413, 413, 1, 213>>, <<415, 415, 1, 214>>, <<416, 420, 2, 1>>,
      <<422, 422, 1, 218>>, <<423, 423, 1, 1>>, <<425, 425, 1, 218>>, <<428, 428, 1, 1>>,
      <<430, 430, 1, 218>>, <<431, 431, 1, 1>>, <<433, 434, 1, 217>>, <<435, 437, 2, 1>>,
      <<439, 439, 1, 219>>, <<440, 440, 1, 1>>, <<444, 444, 1, 1>>, <<452, 452, 1, 2>>,
      <<453, 453, 1, 1>>, <<455, 455, 1, 2>>, <<456, 456, 1, 1>>, <<458, 458, 1, 2>>,
      <<459, 475, 2, 1>>, <<478, 494, 2, 1>>, <<497, 497, 1, 2>>, <<498, 500, 2, 1>>,
      <<502, 502, 1, -97>>, <<503, 503, 1, -56>>, <<504, 542, 2, 1>>, <<544, 544, 1, -130>>,
      <<546, 562, 2, 1>>, <<570, 570, 1, 10795>>, <<571, 571, 1, 1>>, <<573, 573, 1, -163>>,
      <<574, 574, 1, 10792>>, <<577, 577, 1, 1>>, <<579, 579, 1, -195>>, <<580, 580, 1, 69>>,
      <<581, 581, 1, 71>>, <<582, 590, 2, 1>>, <<880, 882, 2, 1>>, <<886, 886, 1, 1>>,
      <<895, 895, 1, 116>>, <<902, 902, 1, 38>>, <<904, 906, 1, 37>>, <<908, 908, 1, 64>>,
      <<910, 911, 1, 63>>, <<913, 929, 1, 32>>, <<932, 939, 1, 32>>, <<975, 975, 1, 8>>,
      <<984, 1006, 2, 1>>, <<1012, 1012, 1, -60>>, <<1015, 1015, 1, 1>>, <<1017, 1017, 1, -7>>,
      <<1018, 1018, 1, 1>>, <<1021, 1023, 1, -130>>, <<1024, 1039, 1, 80>>,
      <<1040, 1071, 1, 32>>, <<1120, 1152, 2, 1>>, <<1162, 1214, 2, 1>>, <<1216, 1216, 1, 15>>,
      <<1217, 1229, 2, 1>>, <<1232, 1326, 2, 1>>, <<1329, 1366, 1, 48>>,
      <<4256, 4293, 1, 7264>>, <<4295, 4295, 1, 7264>>, <<4301, 4301, 1, 7264>>,
      <<5024, 5103, 1, 38864>>, <<5104, 5109, 1, 8>>, <<7305, 7305, 1, 1>>,
      <<7312, 7354, 1, -3008>>, <<7357, 7359, 1, -3008>>, <<7680, 7828, 2, 1>>,
      <<7838, 7838, 1, -7615>>, <<7840, 7934, 2, 1>>, <<7944, 7951, 1, -8>>,
      <<7960, 7965, 1, -8>>, <<7976, 7983, 1, -8>>, <<7992, 7999, 1, -8>>,
      <<8008, 8013, 1, -8>>, <<8025, 8031, 2, -8>>, <<8040, 8047, 1, -8>>,
      <<8072, 8079, 1, -8>>, <<8088, 8095, 1, -8>>, <<8104, 8111, 1, -8>>,
      <<8120, 8121, 1, -8>>, <<8122, 8123, 1, -74>>, <<8124, 8124, 1, -9>>,
      <<8136, 8139, 1, -86>>, <<8140, 8140, 1, -9>>, <<8152, 8153, 1, -8>>,
      <<8154, 8155, 1, -100>>, <<8168, 8169, 1, -8>>, <<8170, 8171, 1, -112>>,
      <<8172, 8172, 1, -7>>, <<8184, 8185, 1, -128>>, <<8186, 8187, 1, -126>>,
      <<8188, 8188, 1, -9>>, <<8486, 8486, 1, -7517>>, <<8490, 8490, 1, -8383>>,
      <<8491, 8491, 1, -8262>>, <<8498, 8498, 1, 28>>, <<8544, 8559, 1, 16>>,
      <<8579, 8579, 1, 1>>, <<9398, 9423, 1, 26>>, <<11264, 11311, 1, 48>>,
      <<11360, 11360, 1, 1>>, <<11362, 11362, 1, -10743>>, <<11363, 11363, 1, -3814>>,
      <<11364, 11364, 1, -10727>>, <<11367, 11371, 2, 1>>, <<11373, 11373, 1, -10780>>,
      <<11374, 11374, 1, -10749>>, <<11375, 11375, 1, -10783>>, <<11376, 11376, 1, -10782>>,
      <<11378, 11378, 1, 1>>, <<11381, 11381, 1, 1>>, <<11390, 11391, 1, -10815>>,
      <<11392, 11490, 2, 1>>, <<11499, 11501, 2, 1>>, <<11506, 11506, 1, 1>>,
      <<42560, 42604, 2, 1>>, <<42624, 42650, 2, 1>>, <<42786, 42798, 2, 1>>,
      <<42802, 42862, 2, 1>>, <<42873, 42875, 2, 1>>, <<42877, 42877, 1, -35332>>,
      <<42878, 42886, 2, 1>>, <<42891, 42891, 1, 1>>, <<42893, 42893, 1, -42280>>,
      <<42896, 42898, 2, 1>>, <<42902, 42920, 2, 1>>, <<42922, 42922, 1, -42308>>,
      <<42923, 42923, 1, -42319>>, <<42924, 42924, 1, -42315>>, <<42925, 42925, 1, -42305>>,
      <<42926, 42926, 1, -42308>>, <<42928, 42928, 1, -42258>>, <<42929, 42929, 1, -42282>>,
      <<42930, 42930, 1, -42261>>, <<42931, 42931, 1, 928>>, <<42932, 42946, 2, 1>>,
      <<42948, 42948, 1, -48>>, <<42949, 42949, 1, -42307>>, <<42950, 42950, 1, -35384>>,
      <<42951, 42953, 2, 1>>, <<42955, 42955, 1, -42343>>, <<42956, 42970, 2, 1>>,
      <<42972, 42972, 1, -42561>>, <<42997, 42997, 1, 1>>, <<65313, 65338, 1, 32>>,
      <<66560, 66599, 1, 40>>, <<66736, 66771, 1, 40>>, <<66928, 66938, 1, 39>>,
      <<66940, 66954, 1, 39>>, <<66956, 66962, 1, 39>>, <<66964, 66965, 1, 39>>,
      <<68736, 68786, 1, 64>>, <<68944, 68965, 1, 32>>, <<71840, 71871, 1, 32>>,
      <<93760, 93791, 1, 32>>, <<93856, 93880, 1, 27>>, <<125184, 125217, 1, 34>>>>

\* the code points <<first, last>> with the property Cased and without the property
\* Case_Ignorable (DerivedCoreProperties, version 17.0)
CasedRanges ==
    <<<<65, 90>>, <<97, 122>>, <<170, 170>>, <<181, 181>>, <<186, 186>>, <<192, 214>>,
      <<216, 246>>, <<248, 442>>, <<444, 447>>, <<452, 659>>, <<662, 687>>, <<880, 883>>,
      <<886, 887>>, <<891, 893>>, <<895, 895>>, <<902, 902>>, <<904, 906>>, <<908, 908>>,
      <<910, 929>>, <<931, 1013>>, <<1015, 1153>>, <<1162, 1327>>, <<1329, 1366>>,
      <<1376, 1416>>, <<4256, 4293>>, <<4295, 4295>>, <<4301, 4301>>, <<4304, 4346>>,
      <<4349, 4351>>, <<5024, 5109>>, <<5112, 5117>>, <<7296, 7306>>, <<7312, 7354>>,
      <<7357, 7359>>, <<7424, 7467>>, <<7531, 7543>>, <<7545, 7578>>, <<7680, 7957>>,
      <<7960, 7965>>, <<7968, 8005>>, <<8008, 8013>>, <<8016, 8023>>, <<8025, 8025>>,
      <<8027, 8027>>, <<8029, 8029>>, <<8031, 8061>>, <<8064, 8116>>, <<8118, 8124>>,
      <<8126, 8126>>, <<8130, 8132>>, <<8134, 8140>>, <<8144, 8147>>, <<8150, 8155>>,
      <<8160, 8172>>, <<8178, 8180>>, <<8182, 8188>>, <<8450, 8450>>, <<8455, 8455>>,
      <<8458, 8467>>, <<8469, 8469>>, <<8473, 8477>>, <<8484, 8484>>, <<8486, 8486>>,
      <<8488, 8488>>, <<8490, 8493>>, <<8495, 8500>>, <<8505, 8505>>, <<8508, 8511>>,
      <<8517, 8521>>, <<8526, 8526>>, <<8544, 8575>>, <<8579, 8580>>, <<9398, 9449>>,
      <<11264, 11387>>, <<11390, 11492>>, <<11499, 11502>>, <<11506, 11507>>, <<11520, 11557>>,
      <<11559, 11559>>, <<11565, 11565>>, <<42560, 42605>>, <<42624, 42651>>, <<42786, 42863>>,
      <<42865, 42887>>, <<42891, 42894>>, <<42896, 42972>>, <<42997, 42998>>, <<43002, 43002>>,
      <<43824, 43866>>, <<43872, 43880>>, <<43888, 43967>>, <<64256, 64262>>, <<64275, 64279>>,
      <<65313, 65338>>, <<65345, 65370>>, <<66560, 66639>>, <<66736, 66771>>, <<66776, 66811>>,
      <<66928, 66938>>, <<66940, 66954>>, <<66956, 66962>>, <<66964, 66965>>, <<66967, 66977>>,
      <<66979, 66993>>, <<66995, 67001>>, <<67003, 67004>>, <<68736, 68786>>, <<68800, 68850>>,
      <<68944, 68965>>, <<68976, 68997>>, <<71840, 71903>>, <<93760, 93823>>, <<93856, 93880>>,
      <<93883, 93907>>, <<119808, 119892>>, <<119894, 119964>>, <<119966, 119967>>,
      <<119970, 119970>>, <<119973, 119974>>, <<119977, 119980>>, <<119982, 119993>>,
      <<119995, 119995>>, <<119997, 120003>>, <<120005, 120069>>, <<120071, 120074>>,
      <<120077, 120084>>, <<120086, 120092>>, <<120094, 120121>>, <<120123, 120126>>,
      <<120128, 120132>>, <<120134, 120134>>, <<120138, 120144>>, <<120146, 120485>>,
      <<120488, 120512>>, <<120514, 120538>>, <<120540, 120570>>, <<120572, 120596>>,
      <<120598, 120628>>, <<120630, 120654>>, <<120656, 120686>>, <<120688, 120712>>,
      <<120714, 120744>>, <<120746, 120770>>, <<120772, 120779>>, <<122624, 122633>>,
      <<122635, 122654>>, <<122661, 122666>>, <<125184, 125251>>, <<127280, 127305>>,
      <<127312, 127337>>, <<127344, 127369>>>>

\* the code points <<first, last>> with the property Case_Ignorable
\* (DerivedCoreProperties, version 17.0)
CaseIgnorableRanges ==
    <<<<39, 39>>, <<46, 46>>, <<58, 58>>, <<94, 94>>, <<96, 96>>, <<168, 168>>, <<173, 173>>,
      <<175, 175>>, <<180, 180>>, <<183, 184>>, <<688, 879>>, <<884, 885>>, <<890, 890>>,
      <<900, 901>>, <<903, 903>>, <<1155, 1161>>, <<1369, 1369>>, <<1375, 1375>>,
      <<1425, 1469>>, <<1471, 1471>>, <<1473, 1474>>, <<1476, 1477>>, <<1479, 1479>>,
      <<1524, 1524>>, <<1536, 1541>>, <<1552, 1562>>, <<1564, 1564>>, <<1600, 1600>>,
      <<1611, 1631>>, <<1648, 1648>>, <<1750, 1757>>, <<1759, 1768>>, <<1770, 1773>>,
      <<1807, 1807>>, <<1809, 1809>>, <<1840, 1866>>, <<1958, 1968>>, <<2027, 2037>>,
      <<2042, 2042>>, <<2045, 2045>>, <<2070, 2093>>, <<2137, 2139>>, <<2184, 2184>>,
      <<2192, 2193>>, <<2199, 2207>>, <<2249, 2306>>, <<2362, 2362>>, <<2364, 2364>>,
      <<2369, 2376>>, <<2381, 2381>>, <<2385, 2391>>, <<2402, 2403>>, <<2417, 2417>>,
      <<2433, 2433>>, <<2492, 2492>>, <<2497, 2500>>, <<2509, 2509>>, <<2530, 2531>>,
      <<2558, 2558>>, <<2561, 2562>>, <<2620, 2620>>, <<2625, 2626>>, <<2631, 2632>>,
      <<2635, 2637>>, <<2641, 2641>>, <<2672, 2673>>, <<2677, 2677>>, <<2689, 2690>>,
      <<2748, 2748>>, <<2753, 2757>>, <<2759, 2760>>, <<2765, 2765>>, <<2786, 2787>>,
      <<2810, 2815>>, <<2817, 2817>>, <<2876, 2876>>, <<2879, 2879>>, <<2881, 2884>>,
      <<2893, 2893>>, <<2901, 2902>>, <<2914, 2915>>, <<2946, 2946>>, <<3008, 3008>>,
      <<3021, 3021>>, <<3072, 3072>>, <<3076, 3076>>, <<3132, 3132>>, <<3134, 3136>>,
      <<3142, 3144>>, <<3146, 3149>>, <<3157, 3158>>, <<3170, 3171>>, <<3201, 3201>>,
      <<3260, 3260>>, <<3263, 3263>>, <<3270, 3270>>, <<3276, 3277>>, <<3298, 3299>>,
      <<3328, 3329>>, <<3387, 3388>>, <<3393, 3396>>, <<3405, 3405>>, <<3426, 3427>>,
      <<3457, 3457>>, <<3530, 3530>>, <<3538, 3540>>, <<3542, 3542>>, <<3633, 3633>>,
      <<3636, 3642>>, <<3654, 3662>>, <<3761, 3761>>, <<3764, 3772>>, <<3782, 3782>>,
      <<3784, 3790>>, <<3864, 3865>>, <<3893, 3893>>, <<3895, 3895>>, <<3897, 3897>>,
      <<3953, 3966>>, <<3968, 3972>>, <<3974, 3975>>, <<3981, 3991>>, <<3993, 4028>>,
      <<4038, 4038>>, <<4141, 4144>>, <<4146, 4151>>, <<4153, 4154>>, <<4157, 4158>>,
      <<4184, 4185>>, <<4190, 4192>>, <<4209, 4212>>, <<4226, 4226>>, <<4229, 4230>>,
      <<4237, 4237>>, <<4253, 4253>>, <<4348, 4348>>, <<4957, 4959>>, <<5906, 5908>>,
      <<5938, 5939>>, <<5970, 5971>>, <<6002, 6003>>, <<6068, 6069>>, <<6071, 6077>>,
      <<6086, 6086>>, <<6089, 6099>>, <<6103, 6103>>, <<6109, 6109>>, <<6155, 6159>>,
      <<6211, 6211>>, <<6277, 6278>>, <<6313, 6313>>, <<6432, 6434>>, <<6439, 6440>>,
      <<6450, 6450>>, <<6457, 6459>>, <<6679, 6680>>, <<6683, 6683>>, <<6742, 6742>>,
      <<6744, 6750>>, <<6752, 6752>>, <<6754, 6754>>, <<6757, 6764>>, <<6771, 6780>>,
      <<6783, 6783>>, <<6823, 6823>>, <<6832, 6877>>, <<6880, 6891>>, <<6912, 6915>>,
      <<6964, 6964>>, <<6966, 6970>>, <<6972, 6972>>, <<6978, 6978>>, <<7019, 7027>>,
      <<7040, 7041>>, <<7074, 7077>>, <<7080, 7081>>, <<7083, 7085>>, <<7142, 7142>>,
      <<7144, 7145>>, <<7149, 7149>>, <<7151, 7153>>, <<7212, 7219>>, <<7222, 7223>>,
      <<7288, 7293>>, <<7376, 7378>>, <<7380, 7392>>, <<7394, 7400>>, <<7405, 7405>>,
      <<7412, 7412>>, <<7416, 7417>>, <<7468, 7530>>, <<7544, 7544>>, <<7579, 7679>>,
      <<8125, 8125>>, <<8127, 8129>>, <<8141, 8143>>, <<8157, 8159>>, <<8173, 8175>>,
      <<8189, 8190>>, <<8203, 8207>>, <<8216, 8217>>, <<8228, 8228>>, <<8231, 8231>>,
      <<8234, 8238>>, <<8288, 8292>>, <<8294, 8303>>, <<8305, 8305>>, <<8319, 8319>>,
      <<8336, 8348>>, <<8400, 8432>>, <<11388, 11389>>, <<11503, 11505>>, <<11631, 11631>>,
      <<11647, 11647>>, <<11744, 11775>>, <<11823, 11823>>, <<12293, 12293>>, <<12330, 12333>>,
      <<12337, 12341>>, <<12347, 12347>>, <<12441, 12446>>, <<12540, 12542>>, <<40981, 40981>>,
      <<42232, 42237>>, <<42508, 42508>>, <<42607, 42610>>, <<42612, 42621>>, <<42623, 42623>>,
      <<42652, 42655>>, <<42736, 42737>>, <<42752, 42785>>, <<42864, 42864>>, <<42888, 42890>>,
      <<42993, 42996>>, <<43000, 43001>>, <<43010, 43010>>, <<43014, 43014>>, <<43019, 43019>>,
      <<43045, 43046>>, <<43052, 43052>>, <<43204, 43205>>, <<43232, 43249>>, <<43263, 43263>>,
      <<43302, 43309>>, <<43335, 43345>>, <<43392, 43394>>, <<43443, 43443>>, <<43446, 43449>>,
      <<43452, 43453>>, <<43471, 43471>>, <<43493, 43494>>, <<43561, 43566>>, <<43569, 43570>>,
      <<43573, 43574>>, <<43587, 43587>>, <<43596, 43596>>, <<43632, 43632>>, <<43644, 43644>>,
      <<43696, 43696>>, <<43698, 43700>>, <<43703, 43704>>, <<43710, 43711>>, <<43713, 43713>>,
      <<43741, 43741>>, <<43756, 43757>>, <<43763, 43764>>, <<43766, 43766>>, <<43867, 43871>>,
      <<43881, 43883>>, <<44005, 44005>>, <<44008, 44008>>, <<44013, 44013>>, <<64286, 64286>>,
      <<64434, 64450>>, <<65024, 65039>>, <<65043, 65043>>, <<65056, 65071>>, <<65106, 65106>>,
      <<65109, 65109>>, <<65279, 65279>>, <<65287, 65287>>, <<65294, 65294>>, <<65306, 65306>>,
      <<65342, 65342>>, <<65344, 65344>>, <<65392, 65392>>, <<65438, 65439>>, <<65507, 65507>>,
      <<65529, 65531>>, <<66045, 66045>>, <<66272, 66272>>, <<66422, 66426>>, <<67456, 67461>>,
      <<67463, 67504>>, <<67506, 67514>>, <<68097, 68099>>, <<68101, 68102>>, <<68108, 68111>>,
      <<68152, 68154>>, <<68159, 68159>>, <<68325, 68326>>, <<68900, 68903>>, <<68942, 68942>>,
      <<68969, 68973>>, <<68975, 68975>>, <<69291, 69292>>, <<69317, 69317>>, <<69370, 69375>>,
      <<69446, 69456>>, <<69506, 69509>>, <<69633, 69633>>, <<69688, 69702>>, <<69744, 69744>>,
      <<69747, 69748>>, <<69759, 69761>>, <<69811, 69814>>, <<69817, 69818>>, <<69821, 69821>>,
      <<69826, 69826>>, <<69837, 69837>>, <<69888, 69890>>, <<69927, 69931>>, <<69933, 69940>>,
      <<70003, 70003>>, <<70016, 70017>>, <<70070, 70078>>, <<70089, 70092>>, <<70095, 70095>>,
      <<70191, 70193>>, <<70196, 70196>>, <<70198, 70199>>, <<70206, 70206>>, <<70209, 70209>>,
      <<70367, 70367>>, <<70371, 70378>>, <<70400, 70401>>, <<70459, 70460>>, <<70464, 70464>>,
      <<70502, 70508>>, <<70512, 70516>>, <<70587, 70592>>, <<70606, 70606>>, <<70608, 70608>>,
      <<70610, 70610>>, <<70625, 70626>>, <<70712, 70719>>, <<70722, 70724>>, <<70726, 70726>>,
      <<70750, 70750>>, <<70835, 70840>>, <<70842, 70842>>, <<70847, 70848>>, <<70850, 70851>>,
      <<71090, 71093>>, <<71100, 71101>>, <<71103, 71104>>, <<71132, 71133>>, <<71219, 71226>>,
      <<71229, 71229>>, <<71231, 71232>>, <<71339, 71339>>, <<71341, 71341>>, <<71344, 71349>>,
      <<71351, 71351>>, <<71453, 71453>>, <<71455, 71455>>, <<71458, 71461>>, <<71463, 71467>>,
      <<71727, 71735>>, <<71737, 71738>>, <<71995, 71996>>, <<71998, 71998>>, <<72003, 72003>>,
      <<72148, 72151>>, <<72154, 72155>>, <<72160, 72160>>, <<72193, 72202>>, <<72243, 72248>>,
      <<72251, 72254>>, <<72263, 72263>>, <<72273, 72278>>, <<72281, 72283>>, <<72330, 72342>>,
      <<72344, 72345>>, <<72544, 72544>>, <<72546, 72548>>, <<72550, 72550>>, <<72752, 72758>>,
      <<72760, 72765>>, <<72767, 72767>>, <<72850, 72871>>, <<72874, 72880>>, <<72882, 72883>>,
      <<72885, 72886>>, <<73009, 73014>>, <<73018, 73018>>, <<73020, 73021>>, <<73023, 73029>>,
      <<73031, 73031>>, <<73104, 73105>>, <<73109, 73109>>, <<73111, 73111>>, <<73177, 73177>>,
      <<73459, 73460>>, <<73472, 73473>>, <<73526, 73530>>, <<73536, 73536>>, <<73538, 73538>>,
      <<73562, 73562>>, <<78896, 78912>>, <<78919, 78933>>, <<90398, 90409>>, <<90413, 90415>>,
      <<92912, 92916>>, <<92976, 92982>>, <<92992, 92995>>, <<93504, 93506>>, <<93547, 93548>>,
      <<94031, 94031>>, <<94095, 94111>>, <<94176, 94177>>, <<94179, 94180>>, <<94194, 94195>>,
      <<110576, 110579>>, <<110581, 110587>>, <<110589, 110590>>, <<113821, 113822>>,
      <<113824, 113827>>, <<118528, 118573>>, <<118576, 118598>>, <<119143, 119145>>,
      <<119155, 119170>>, <<119173, 119179>>, <<119210, 119213>>, <<119362, 119364>>,
      <<121344, 121398>>, <<121403, 121452>>, <<121461, 121461>>, <<121476, 121476>>,
      <<121499, 121503>>, <<121505, 121519>>, <<122880, 122886>>, <<122888, 122904>>,
      <<122907, 122913>>, <<122915, 122916>>, <<122918, 122922>>, <<122928, 122989>>,
      <<123023, 123023>>, <<123184, 123197>>, <<123566, 123566>>, <<123628, 123631>>,
      <<124139, 124143>>, <<124398, 124399>>, <<124643, 124643>>, <<124646, 124646>>,
      <<124654, 124655>>, <<124661, 124661>>, <<124671, 124671>>, <<125136, 125142>>,
      <<125252, 125259>>, <<127995, 127999>>, <<917505, 917505>>, <<917536, 917631>>,
      <<917760, 917999>>>>

\* cp is one of the code points of row r of LowerCaseRanges
InRow(cp, r) == r[1] <= cp /\ cp <= r[2] /\ (cp - r[1]) % r[3] = 0

\* the simple lower-case mapping of a code point
ToLowerCodePoint ==
    [cp \in Int |->
        IF \E k \in 1..Len(LowerCaseRanges) : InRow(cp, LowerCaseRanges[k])
        THEN cp + LowerCaseRanges[CHOOSE k \in 1..Len(LowerCaseRanges) :
                                      InRow(cp, LowerCaseRanges[k])][4]
        ELSE cp]

IsCased ==
    [cp \in Int |->
        \E k \in 1..Len(CasedRanges) : CasedRanges[k][1] <= cp /\ cp <= CasedRanges[k][2]]

IsCaseIgnorable ==
    [cp \in Int |->
        \E k \in 1..Len(CaseIgnorableRanges) :
            CaseIgnorableRanges[k][1] <= cp /\ cp <= CaseIgnorableRanges[k][2]]

\* the code point that starts at position i of s: a surrogate pair is one code
\* point; -1 at the second half of a pair
CodePointAt(s, i) ==
    IF i > 1 /\ CharCode[s[i]] \in 56320..57343 /\ CharCode[s[i - 1]] \in 55296..56319
    THEN -1
    ELSE IF i < Len(s) /\ CharCode[s[i]] \in 55296..56319
                       /\ CharCode[s[i + 1]] \in 56320..57343
    THEN 65536 + ((CharCode[s[i]] - 55296) * 1024) + (CharCode[s[i + 1]] - 56320)
    ELSE CharCode[s[i]]

\* what the search for a cased letter passes over
Skipped == [cp \in Int |-> cp = -1 \/ IsCaseIgnorable[cp]]

\* the condition Final_Sigma of SpecialCasing at position i of s: a cased letter
\* before it and none after it, case-ignorable characters passed over
FinalSigma(s, i) ==
    /\ \E j \in 1..(i - 1) :
          IsCased[CodePointAt(s, j)] /\ \A k \in (j + 1)..(i - 1) : Skipped[CodePointAt(s, k)]
    /\ ~ \E j \in (i + 1)..Len(s) :
            IsCased[CodePointAt(s, j)] /\ \A k \in (i + 1)..(j - 1) : Skipped[CodePointAt(s, k)]

\* the lower case of a code point away from U+03A3: U+0130 becomes U+0069 U+0307,
\* every other one its simple mapping; nothing for the second half of a pair
LowerOf ==
    [cp \in Int |->
        IF cp = -1 THEN <<>>
        ELSE IF cp = 304 THEN <<CodeUnit(105), CodeUnit(775)>>
        ELSE CodeUnits(ToLowerCodePoint[cp])]

\* the lower case of the code point at position i of s: U+03A3 becomes U+03C2
\* where it is final and U+03C3 elsewhere
LowerAt(s, i) ==
    IF CodePointAt(s, i) = 931
    THEN IF FinalSigma(s, i) THEN <<CodeUnit(962)>> ELSE <<CodeUnit(963)>>
    ELSE LowerOf[CodePointAt(s, i)]

\* s.toLowerCase(): the lower case of its code points, one after the other
ToLowerCase(s) ==
    LET Lower[lo \in 1..(Len(s) + 1), hi \in 0..Len(s)] ==
            IF lo > hi THEN <<>>
            ELSE IF lo = hi THEN LowerAt(s, lo)
            ELSE Lower[lo, (lo + hi) \div 2] \o Lower[((lo + hi) \div 2) + 1, hi]
    IN  Lower[1, Len(s)]

\* WhiteSpace and LineTerminator of ECMAScript, the characters trim() and parseInt()
\* remove: tab, VT, FF, space, NBSP, BOM, the other space separators, LF, CR, LS, PS
WhiteSpaceCodes ==
    {9, 10, 11, 12, 13, 32, 160, 5760, 8232, 8233, 8239, 8287, 12288, 65279}
        \cup (8192..8202)

IsSpace(c) == c \in {CodeUnit(n) : n \in WhiteSpaceCodes}

RECURSIVE TrimStart(_)
TrimStart(s) == IF s # <<>> /\ IsSpace(Head(s)) THEN TrimStart(Tail(s)) ELSE s

RECURSIVE TrimEnd(_)
TrimEnd(s) ==
    IF s # <<>> /\ IsSpace(s[Len(s)]) THEN TrimEnd(SubSeq(s, 1, Len(s) - 1)) ELSE s

\* s.trim()
Trim(s) == TrimEnd(TrimStart(s))

\* s.split(','): the pieces between commas, [""] for the empty string
RECURSIVE SplitComma(_, _)
SplitComma(s, cur) ==
    IF s = <<>> THEN <<cur>>
    ELSE IF Head(s) = "," THEN <<cur>> \o SplitComma(Tail(s), <<>>)
    ELSE SplitComma(Tail(s), Append(cur, Head(s)))

\* seq.map(s => s.trim()).filter(s => s.length > 0)
RECURSIVE TrimNonEmpty(_)
TrimNonEmpty(parts) ==
    IF parts = <<>> THEN <<>>
    ELSE LET t == Trim(Head(parts))
         IN  (IF Len(t) > 0 THEN <<t>> ELSE <<>>) \o TrimNonEmpty(Tail(parts))

SeqToSet(q) == {q[i] : i \in 1..Len(q)}

(***************************************************************************)
(* The vault: folders and files by path (TFolder / TFile of the host).     *)
(***************************************************************************)
Root == "/"

Folders == {Root, "A", "A/B", "A/B/C", "A/B/D"}

Files == {"A/B/C/file.png", "A/B/C/other.png", "A/B/C/.DS_Store",
          "A/B/Thumbs.db", "A/keep.png", "A/Desktop.ini"}

Nodes == Folders \cup Files

\* node.parent (null for the root)
Parent ==
    (Root :> Null) @@ ("A" :> Root) @@ ("A/B" :> "A") @@ ("A/B/C" :> "A/B") @@
    ("A/B/D" :> "A/B") @@
    ("A/B/C/file.png" :> "A/B/C") @@ ("A/B/C/other.png" :> "A/B/C") @@
    ("A/B/C/.DS_Store" :> "A/B/C") @@ ("A/B/Thumbs.db" :> "A/B") @@
    ("A/keep.png" :> "A") @@ ("A/Desktop.ini" :> "A")

DsStore == <<".", "D", "S", "_", "S", "t", "o", "r", "e">>
ThumbsDb == <<"T", "h", "u", "m", "b", "s", ".", "d", "b">>
DesktopIni == <<"D", "e", "s", "k", "t", "o", "p", ".", "i", "n", "i">>

\* node.name: the last component of the path
Name ==
    (Root :> <<>>) @@ ("A" :> <<"A">>) @@ ("A/B" :> <<"B">>) @@ ("A/B/C" :> <<"C">>) @@
    ("A/B/D" :> <<"D">>) @@
    ("A/B/C/file.png" :> <<"f", "i", "l", "e", ".", "p", "n", "g">>) @@
    ("A/B/C/other.png" :> <<"o", "t", "h", "e", "r", ".", "p", "n", "g">>) @@
    ("A/B/C/.DS_Store" :> DsStore) @@ ("A/B/Thumbs.db" :> ThumbsDb) @@
    ("A/keep.png" :> <<"k", "e", "e", "p", ".", "p", "n", "g">>) @@
    ("A/Desktop.ini" :> DesktopIni)

\* folder.isRoot()
IsRoot(n) == n = Root

RECURSIVE IsUnder(_, _)
\* n is d or a descendant of d
IsUnder(n, d) ==
    IF n = d THEN TRUE
    ELSE IF n = Null \/ Parent[n] = Null THEN FALSE
    ELSE IsUnder(Parent[n], d)

\* a set of nodes that is a tree: it has the root and the parent of each node
IsTree(S) == Root \in S /\ \A n \in S : n = Root \/ Parent[n] \in S


(***************************************************************************)
(* State of the plugin, of the host it talks to, and of each request.      *)
(***************************************************************************)
VARIABLES
    exists,          \* vault: the paths for which getAbstractFileByPath resolves
    resolvedLinks,   \* metadataCache.resolvedLinks: source -> (target -> count)
    docText,         \* editor: the line of the current note that holds the links
    settings,        \* this.settings
    persisted,       \* the data of the plugin as the host has stored it (data.json)
    saving,          \* calls of saveData that have not completed, oldest first
    onloads,         \* where each call of onload stands, the first call first:
                     \* "loading" at the await of loadData, "done" once it returned
    shown,           \* the fields the settings tab shows, as display() last built it
    isProcessing,    \* this.isProcessing, the lock
    pc,              \* where each request stands
    cursorCh,        \* the cursor offset given to getLinkUnderCursor where the
                     \* locator is examined by itself (in the menu handler it is
                     \* a local that is dead once linkInfo is captured)
    linkInfo,        \* linkInfo captured by the editor-menu handler
    targetFile,      \* targetFile resolved by processDeleteRequest
    refData,         \* the reference summary computed by processDeleteRequest
    foldersToDelete, \* the plan computed by processDeleteRequest
    deleteFolders,   \* the argument executeDelete was called with
    folderIdx,       \* position of the for-loop over foldersToDelete
    choice,          \* the button pressed in DeleteConfirmModal
    fileOps,         \* calls of vault.trash / vault.delete made by the request
    edits,           \* calls of editor.replaceRange completed by the request
    notices          \* Notices shown by the request

vars == <<exists, resolvedLinks, docText, settings, persisted, saving, onloads, shown, cursorCh, isProcessing, pc,
          linkInfo,
          targetFile, refData, foldersToDelete, deleteFolders, folderIdx, choice,
          fileOps, edits, notices>>

Reqs == 1..MaxRequests

\* view.file of the editor the menu belongs to
CurrentNote == "note.md"

Sources == {"note.md", "other.md"}

(***************************************************************************)
(* Settings (DEFAULT_SETTINGS and the values the settings tab can store).  *)
(***************************************************************************)
Assets == <<"a", "s", "s", "e", "t", "s">>

(***************************************************************************)
(* The values of a number field (JavaScript Number, or null once stored):  *)
(* kind "int" is an integer of at most nine digits, val, with              *)
(* neg for -0; kind "big" a longer integer, the decimal digits of its      *)
(* magnitude in digits; "inf" an infinity; "nan"; "null".                  *)
(***************************************************************************)
Number(n) == [kind |-> "int", neg |-> n < 0, val |-> n, digits |-> <<>>]

NaN == [kind |-> "nan", neg |-> FALSE, val |-> 0, digits |-> <<>>]

NullValue == [kind |-> "null", neg |-> FALSE, val |-> 0, digits |-> <<>>]

Infinity(neg) == [kind |-> "inf", neg |-> neg, val |-> 0, digits |-> <<>>]

BigInteger(neg, digits) == [kind |-> "big", neg |-> neg, val |-> 0, digits |-> digits]

\* isNaN(x)
isNaN(x) == x.kind = "nan"

\* ToNumber(x) of a comparison: null is +0
ToNumber(x) == IF x.kind = "null" THEN Number(0) ELSE x

RECURSIVE DigitsLess(_, _, _)
\* a < b for two numerals of the same length, from digit i on
DigitsLess(a, b, i) ==
    IF i > Len(a) THEN FALSE
    ELSE IF a[i] # b[i] THEN a[i] < b[i]
    ELSE DigitsLess(a, b, i + 1)

\* |a| < |b| for two numbers that are not both of kind "int"
MagnitudeLess(a, b) ==
    IF a.kind = "inf" THEN FALSE
    ELSE IF b.kind = "inf" THEN TRUE
    ELSE IF a.kind = "int" THEN TRUE
    ELSE IF b.kind = "int" THEN FALSE
    ELSE IF Len(a.digits) # Len(b.digits) THEN Len(a.digits) < Len(b.digits)
    ELSE DigitsLess(a.digits, b.digits, 1)

\* x < y of JavaScript
Less(x, y) ==
    LET a == ToNumber(x)
        b == ToNumber(y)
    IN  IF a.kind = "nan" \/ b.kind = "nan" THEN FALSE
        ELSE IF a.kind = "int" /\ b.kind = "int" THEN a.val < b.val
        ELSE IF a.neg # b.neg THEN a.neg
        ELSE IF a.neg THEN MagnitudeLess(b, a)
        ELSE MagnitudeLess(a, b)

\* JSON.parse(JSON.stringify(x)) of a number field: null for an infinity and for
\* NaN, +0 for -0
JsonNumber(x) ==
    IF x.kind \in {"inf", "nan"} THEN NullValue
    ELSE IF x.kind = "int" /\ x.val = 0 THEN Number(0)
    ELSE x

DEFAULT_SETTINGS ==
    [enableCascade |-> TRUE, stopFolders |-> Assets, enableWarning |-> TRUE,
     warningThreshold |-> Number(3), trashStrategy |-> "system"]

TrashStrategies == {"system", "local", "permanent"}

\* display(): the barrier list and the warning toggle are built while cascading is on,
\* the threshold field while warnings are on as well
display(st) ==
    [cascade |-> st.enableCascade, warning |-> st.enableCascade /\ st.enableWarning]

\* the barrier list without map(s => s.trim())
stopFolderNames_NoTrim == SeqToSet(SplitComma(settings.stopFolders, <<>>))

\* this.settings.stopFolders.split(',').map(s => s.trim()).filter(s => s.length > 0)
stopFolderNames == SeqToSet(TrimNonEmpty(SplitComma(settings.stopFolders, <<>>)))

(***************************************************************************)
(* calculateCascadeFolders                                                 *)
(***************************************************************************)
NoiseNames == {DsStore, ThumbsDb, DesktopIni}

\* const isSystem = name === ".DS_Store" || name === "Thumbs.db" || name === "Desktop.ini"
isSystem(child) == Name[child] \in NoiseNames

\* the filter with the test of isSystem inverted
children_KeepsNoise(currentFolder, ignoredPaths) ==
    {child \in exists :
        /\ Parent[child] = currentFolder
        /\ isSystem(child)
        /\ child \notin ignoredPaths}

\* currentFolder.children.filter(child => !isSystem && !isIgnored)
children(currentFolder, ignoredPaths) ==
    {child \in exists :
        /\ Parent[child] = currentFolder
        /\ ~isSystem(child)
        /\ child \notin ignoredPaths}

\* the loop left after its first folder
CascadeWalk_OneFolder(currentFolder, acc, ignoredPaths) ==
    IF currentFolder = Null \/ IsRoot(currentFolder) THEN acc
    ELSE IF Name[currentFolder] \in stopFolderNames THEN acc
    ELSE IF children(currentFolder, ignoredPaths) = {}
         THEN Append(acc, currentFolder)
         ELSE acc

RECURSIVE CascadeWalk(_, _, _)
\* the while loop of calculateCascadeFolders
CascadeWalk(currentFolder, acc, ignoredPaths) ==
    IF currentFolder = Null \/ IsRoot(currentFolder) THEN acc
    ELSE IF Name[currentFolder] \in stopFolderNames THEN acc
    ELSE IF children(currentFolder, ignoredPaths) = {}
         THEN CascadeWalk(Parent[currentFolder], Append(acc, currentFolder),
                          ignoredPaths \cup {currentFolder})
         ELSE acc

calculateCascadeFolders(file) ==
    IF ~settings.enableCascade THEN <<>>
    ELSE CascadeWalk(Parent[file], <<>>, {file})

(***************************************************************************)
(* getReferences                                                           *)
(***************************************************************************)
RECURSIVE SumCounts(_, _)
SumCounts(S, targetPath) ==
    IF S = {} THEN 0
    ELSE LET src == CHOOSE x \in S : TRUE
         IN  resolvedLinks[src][targetPath] + SumCounts(S \ {src}, targetPath)

\* a summary whose totalCount counts the referencing notes
getReferences_CountsFiles(file) ==
    LET refFiles == {src \in DOMAIN resolvedLinks : file \in DOMAIN resolvedLinks[src]}
    IN  [totalCount |-> Cardinality(refFiles),
         fileCount  |-> Cardinality(refFiles),
         files      |-> refFiles]

\* refData of a request that has not called getReferences
NoRefData == [totalCount |-> -1, fileCount |-> -1, files |-> {}]

getReferences(file) ==
    LET refFiles == {src \in DOMAIN resolvedLinks : file \in DOMAIN resolvedLinks[src]}
    IN  [totalCount |-> SumCounts(refFiles, file),
         fileCount  |-> Cardinality(refFiles),
         files      |-> refFiles]


(***************************************************************************)
(* getLinkUnderCursor: the two regexes, scanned with the g flag.           *)
(***************************************************************************)
NoMatch == [index |-> -1, end |-> -1, linkText |-> <<>>]

\* the characters "." of a regular expression does not match: LF, CR, LS, PS
LineTerminators == {CodeUnit(10), CodeUnit(13), CodeUnit(8232), CodeUnit(8233)}

\* every character of s is matched by "."
DotAll(s) == \A k \in 1..Len(s) : s[k] \notin LineTerminators

\* /!?\[\[(.*?)(?:\|.*?)?\]\]/ anchored at i: optional "!", "[[", the shortest
\* text up to a "|" that a "]]" follows or up to "]]", the first "]]"; no line
\* terminator between the brackets
WikiAt(s, i) ==
    LET j == IF At(s, i) = "!" THEN i + 1 ELSE i
        close == IndexOf(s, <<"]", "]">>, j + 2)
        pipe == IndexOf(s, <<"|">>, j + 2)
        stop == IF pipe # -1 /\ pipe < close THEN pipe ELSE close
    IN  IF StartsAt(s, <<"[", "[">>, j) /\ close # -1 /\ DotAll(Slice(s, j + 2, close))
        THEN [index |-> i, end |-> close + 2, linkText |-> Slice(s, j + 2, stop)]
        ELSE NoMatch

\* /!?\[.*?\]\((.*?)\)/ anchored at i: optional "!", "[", the first "](", the
\* first ")" after it; no line terminator in the label nor in the target
MdAt(s, i) ==
    LET j == IF At(s, i) = "!" THEN i + 1 ELSE i
        mid == IndexOf(s, <<"]", "(">>, j + 1)
        close == IF mid = -1 THEN -1 ELSE IndexOf(s, <<")">>, mid + 2)
    IN  IF At(s, j) = "[" /\ mid # -1 /\ close # -1
           /\ DotAll(Slice(s, j + 1, mid)) /\ DotAll(Slice(s, mid + 2, close))
        THEN [index |-> i, end |-> close + 1, linkText |-> Slice(s, mid + 2, close)]
        ELSE NoMatch

RECURSIVE WikiExec(_, _)
\* wikiRegex.exec with lastIndex = from: the leftmost match at or after from
WikiExec(s, from) ==
    IF from > Len(s) THEN NoMatch
    ELSE IF WikiAt(s, from) # NoMatch THEN WikiAt(s, from)
    ELSE WikiExec(s, from + 1)

RECURSIVE MdExec(_, _)
\* mdRegex.exec with lastIndex = from
MdExec(s, from) ==
    IF from > Len(s) THEN NoMatch
    ELSE IF MdAt(s, from) # NoMatch THEN MdAt(s, from)
    ELSE MdExec(s, from + 1)

\* the URIError decodeURIComponent throws
URIError == <<"URIError">>

HexValue ==
    ("0" :> 0) @@ ("1" :> 1) @@ ("2" :> 2) @@ ("3" :> 3) @@ ("4" :> 4) @@
    ("5" :> 5) @@ ("6" :> 6) @@ ("7" :> 7) @@ ("8" :> 8) @@ ("9" :> 9) @@
    ("a" :> 10) @@ ("b" :> 11) @@ ("c" :> 12) @@ ("d" :> 13) @@ ("e" :> 14) @@
    ("f" :> 15) @@ ("A" :> 10) @@ ("B" :> 11) @@ ("C" :> 12) @@ ("D" :> 13) @@
    ("E" :> 14) @@ ("F" :> 15)

\* the byte of the escape %XX at position k (from 1) of s, -1 when there is none
ByteAt(s, k) ==
    IF k + 2 <= Len(s) /\ s[k] = "%" /\ s[k + 1] \in DOMAIN HexValue
                      /\ s[k + 2] \in DOMAIN HexValue
    THEN 16 * HexValue[s[k + 1]] + HexValue[s[k + 2]]
    ELSE -1


\* the length of the UTF-8 sequence a first byte announces, 0 when it starts none
Utf8Length(b) ==
    IF b < 0 THEN 0
    ELSE IF b < 128 THEN 1
    ELSE IF b \in 192..223 THEN 2
    ELSE IF b \in 224..239 THEN 3
    ELSE IF b \in 240..247 THEN 4
    ELSE 0

RECURSIVE DecodeFrom(_, _)
\* Decode of ECMAScript from position k: an escape sequence is the UTF-8 encoding
\* of one code point (no overlong form, no surrogate, none above U+10FFFF), any
\* other character is copied
DecodeFrom(s, k) ==
    IF k > Len(s) THEN <<>>
    ELSE IF s[k] # "%"
         THEN LET rest == DecodeFrom(s, k + 1)
              IN  IF rest = URIError THEN URIError ELSE <<s[k]>> \o rest
    ELSE LET b == ByteAt(s, k)
             n == Utf8Length(b)
             c1 == ByteAt(s, k + 3) - 128
             c2 == ByteAt(s, k + 6) - 128
             c3 == ByteAt(s, k + 9) - 128
             cp == IF n = 1 THEN b
                   ELSE IF n = 2 THEN (b - 192) * 64 + c1
                   ELSE IF n = 3 THEN (b - 224) * 4096 + c1 * 64 + c2
                   ELSE (b - 240) * 262144 + c1 * 4096 + c2 * 64 + c3
             valid == /\ n > 0
                      /\ \A i \in 1..(n - 1) : ByteAt(s, k + 3 * i) \in 128..191
                      /\ n = 2 => cp >= 128
                      /\ n = 3 => cp >= 2048 /\ cp \notin 55296..57343
                      /\ n = 4 => cp \in 65536..1114111
         IN  IF ~valid THEN URIError
             ELSE LET rest == DecodeFrom(s, k + 3 * n)
                  IN  IF rest = URIError THEN URIError ELSE CodeUnits(cp) \o rest

\* decodeURIComponent(s): the decoded string, or URIError
decodeURIComponent(s) == DecodeFrom(s, 1)

NoLink == [linkText |-> <<>>, start |-> [line |-> -1, ch |-> -1],
           end |-> [line |-> -1, ch |-> -1]]

LinkOf(m, text, cursor) ==
    [linkText |-> text, start |-> [line |-> cursor.line, ch |-> m.index],
     end |-> [line |-> cursor.line, ch |-> m.end]]

RECURSIVE MdScan(_, _, _)
\* the second while loop
MdScan(lineText, cursor, from) ==
    LET match == MdExec(lineText, from)
    IN  IF match = NoMatch THEN NoLink
        ELSE IF cursor.ch >= match.index /\ cursor.ch <= match.end
             THEN LinkOf(match, decodeURIComponent(match.linkText), cursor)
        ELSE MdScan(lineText, cursor, match.end)

RECURSIVE WikiScan(_, _, _)
\* the first while loop
WikiScan(lineText, cursor, from) ==
    LET match == WikiExec(lineText, from)
    IN  IF match = NoMatch THEN MdScan(lineText, cursor, 0)
        ELSE IF cursor.ch >= match.index /\ cursor.ch <= match.end
             THEN LinkOf(match, match.linkText, cursor)
        ELSE WikiScan(lineText, cursor, match.end)

\* NoLink stands for null; a linkText of URIError for the exception thrown
getLinkUnderCursor(lineText, cursor) == WikiScan(lineText, cursor, 0)


(***************************************************************************)
(* The host's collaborators, as the plugin sees them.                      *)
(***************************************************************************)
FilePng == <<"f", "i", "l", "e", ".", "p", "n", "g">>
OtherPng == <<"o", "t", "h", "e", "r", ".", "p", "n", "g">>

\* metadataCache.getFirstLinkpathDest(linkText, currentNoteFile.path): the file
\* the link names when the vault has it, else null
getFirstLinkpathDest(linkText) ==
    IF linkText = FilePng /\ "A/B/C/file.png" \in exists THEN "A/B/C/file.png"
    ELSE IF linkText = OtherPng /\ "A/B/C/other.png" \in exists THEN "A/B/C/other.png"
    ELSE Null

\* vault.getAbstractFileByPath(path)
getAbstractFileByPath(path) == IF path \in exists THEN path ELSE Null

\* what a vault.trash / vault.delete call or an editor call ends with: it returns,
\* or it throws an error with a message
Returned == [ok |-> TRUE, msg |-> <<>>]

\* err.message || "": a message naming EBUSY, one saying "Busy", one saying neither
ErrorMessages ==
    {<<"E", "B", "U", "S", "Y">>, <<"B", "u", "s", "y">>, <<"E", "P", "E", "R", "M">>}

Thrown == {[ok |-> FALSE, msg |-> m] : m \in ErrorMessages}

Outcomes == {Returned} \cup Thrown

Pending == [ok |-> FALSE, msg |-> <<"p", "e", "n", "d", "i", "n", "g">>]

\* the vault after a file or folder is trashed or deleted: it goes with all it holds
Removed(tree, node) == {n \in tree : ~IsUnder(n, node)}

\* editor.replaceRange("", start, end) on the line; positions past the end of the
\* line are clipped to it
replaceRange(text, start, end) ==
    LET from == Min(start.ch, Len(text))
        to == Min(end.ch, Len(text))
    IN  SubSeq(text, 1, from) \o SubSeq(text, to + 1, Len(text))

\* performDeletion: the vault call chosen by settings.trashStrategy
performDeletion(file) ==
    [node |-> file,
     via  |-> IF settings.trashStrategy = "permanent" THEN "delete"
              ELSE IF settings.trashStrategy = "system" THEN "trash_system"
              ELSE "trash_local",
     res  |-> Pending]

\* new Notice(...)
Notice(kind, n) == [kind |-> kind, n |-> n]

\* the catch block without toLowerCase
catchNotice_CaseSensitive(err) ==
    IF Includes(err.msg, <<"E", "B", "U", "S", "Y">>)
       \/ Includes(err.msg, <<"b", "u", "s", "y">>)
    THEN Notice("busy", 0)
    ELSE Notice("failed", 0)

\* the catch block: which Notice an error gets
catchNotice(err) ==
    IF Includes(err.msg, <<"E", "B", "U", "S", "Y">>)
       \/ Includes(ToLowerCase(err.msg), <<"b", "u", "s", "y">>)
    THEN Notice("busy", 0)
    ELSE Notice("failed", 0)


(***************************************************************************)
(* The confirmation gate and executeDelete.                                *)
(***************************************************************************)
Upd(f, r, v) == [f EXCEPT ![r] = v]

\* the decision logic with <= for < at the threshold
Gate_AtThreshold(plan) ==
    IF ~settings.enableCascade \/ Len(plan) = 0 THEN "file_only"
    ELSE IF ~settings.enableWarning THEN "silent"
    ELSE IF ~Less(settings.warningThreshold, Number(Len(plan))) THEN "silent"
    ELSE "confirm"

\* the decision logic at the end of processDeleteRequest
Gate(plan) ==
    IF ~settings.enableCascade \/ Len(plan) = 0 THEN "file_only"
    ELSE IF ~settings.enableWarning THEN "silent"
    ELSE IF Less(Number(Len(plan)), settings.warningThreshold) THEN "silent"
    ELSE "confirm"

\* executeDelete without its guard
executeDelete_NoGuard(r, withFolders, file) ==
    /\ isProcessing' = TRUE
    /\ deleteFolders' = Upd(deleteFolders, r, withFolders)
    /\ fileOps' = Upd(fileOps, r, Append(fileOps[r], performDeletion(file)))
    /\ pc' = Upd(pc, r, "deleting")

\* entry of executeDelete: the guard, the lock, and the call that deletes the
\* attachment, at which the function awaits
executeDelete(r, withFolders, file) ==
    IF isProcessing
    THEN /\ pc' = Upd(pc, r, "ignored")
         /\ UNCHANGED <<isProcessing, deleteFolders, fileOps>>
    ELSE /\ isProcessing' = TRUE
         /\ deleteFolders' = Upd(deleteFolders, r, withFolders)
         /\ fileOps' = Upd(fileOps, r, Append(fileOps[r], performDeletion(file)))
         /\ pc' = Upd(pc, r, "deleting")

\* a finally block that leaves the lock
Finally_NoUnlock(r, state) ==
    /\ pc' = Upd(pc, r, state)
    /\ UNCHANGED isProcessing

\* the finally block
Finally(r, state) ==
    /\ isProcessing' = FALSE
    /\ pc' = Upd(pc, r, state)

\* the catch block, then finally
Catch(r, err, ops) ==
    /\ notices' = Upd(notices, r, Append(notices[r], catchNotice(err)))
    /\ fileOps' = Upd(fileOps, r, ops)
    /\ Finally(r, "failed")

\* the end of the try block showing "attachment deleted" before its notice
Succeed_TwoNotices(r, notice, ops) ==
    /\ notices' = Upd(notices, r, notices[r] \o <<Notice("deleted", 0), notice>>)
    /\ fileOps' = Upd(fileOps, r, ops)
    /\ Finally(r, "done")

\* the end of the try block, then finally
Succeed(r, notice, ops) ==
    /\ notices' = Upd(notices, r, Append(notices[r], notice))
    /\ fileOps' = Upd(fileOps, r, ops)
    /\ Finally(r, "done")

\* the loop without the test of the re-resolved folder
NextFolder_NoSkip(plan, i, tree) == i

RECURSIVE NextFolder(_, _, _)
\* for (const folder of foldersToDelete): the next position from i whose path
\* still resolves in the vault (if (f) ...), Len + 1 when the loop ends
NextFolder(plan, i, tree) ==
    IF i > Len(plan) THEN i
    ELSE IF plan[i] \in tree THEN i
    ELSE NextFolder(plan, i + 1, tree)

\* the for-loop from position i, up to its next await or its end
CascadeLoop(r, i, tree, ops) ==
    LET plan == foldersToDelete[r]
        j == NextFolder(plan, i, tree)
    IN  IF j <= Len(plan)
        THEN /\ folderIdx' = Upd(folderIdx, r, j)
             /\ fileOps' = Upd(fileOps, r, Append(ops, performDeletion(plan[j])))
             /\ pc' = Upd(pc, r, "cascade")
             /\ UNCHANGED <<isProcessing, notices>>
        ELSE /\ folderIdx' = Upd(folderIdx, r, j)
             /\ Succeed(r, Notice("cascade", Len(plan)), ops)

\* the fileOps of r with the outcome of its last call
Settled(r, res) == [fileOps[r] EXCEPT ![Len(fileOps[r])].res = res]

(***************************************************************************)
(* Operations.                                                             *)
(***************************************************************************)
\* editor-menu handler: the link under the cursor gets a menu item. The host shows
\* one context menu at a time, so the requests are numbered in the order of their
\* menus and a menu opens once the item of the one before was clicked
MenuOpen(r) ==
    /\ pc[r] = "idle"
    /\ IF r = 1 THEN TRUE ELSE pc[r - 1] \notin {"idle", "menu"}
    /\ \E found \in {getLinkUnderCursor(docText, [line |-> 0, ch |-> ch]) :
                        ch \in 0..Len(docText)} :
          /\ found # NoLink
          /\ found.linkText # URIError
          /\ linkInfo' = Upd(linkInfo, r, found)
    /\ pc' = Upd(pc, r, "menu")
    /\ UNCHANGED <<exists, resolvedLinks, docText, settings, persisted, saving, onloads, shown, cursorCh, isProcessing, targetFile,
                   refData, foldersToDelete, deleteFolders, folderIdx, choice, fileOps,
                   edits, notices>>

\* the LinkNotFound branch with the notice alone
LinkNotFound_KeepsText(r) ==
    /\ notices' = Upd(notices, r, Append(notices[r], Notice("notfound", 0)))
    /\ pc' = Upd(pc, r, "notfound")
    /\ UNCHANGED <<exists, docText, isProcessing, targetFile, refData, foldersToDelete,
                   deleteFolders, folderIdx, fileOps, edits>>

\* processDeleteRequest when the link does not resolve
LinkNotFound(r) ==
    /\ notices' = Upd(notices, r, Append(notices[r], Notice("notfound", 0)))
    /\ \E ed \in Outcomes :
          IF ed.ok
          THEN /\ docText' = replaceRange(docText, linkInfo[r].start, linkInfo[r].end)
               /\ edits' = Upd(edits, r, edits[r] + 1)
               /\ pc' = Upd(pc, r, "notfound")
          ELSE /\ pc' = Upd(pc, r, "threw")
               /\ UNCHANGED <<docText, edits>>
    /\ UNCHANGED <<exists, isProcessing, targetFile, refData, foldersToDelete,
                   deleteFolders, folderIdx, fileOps>>

\* processDeleteRequest when the target has more than one reference
MultiplyReferenced(r, file, refs) ==
    /\ targetFile' = Upd(targetFile, r, file)
    /\ refData' = Upd(refData, r, refs)
    /\ \E ed \in Outcomes :
          IF ed.ok
          THEN /\ docText' = replaceRange(docText, linkInfo[r].start, linkInfo[r].end)
               /\ edits' = Upd(edits, r, edits[r] + 1)
               /\ notices' = Upd(notices, r, Append(notices[r],
                      IF refs.fileCount = 1 /\ CurrentNote \in refs.files
                      THEN Notice("multi_local", refs.totalCount)
                      ELSE Notice("multi", refs.totalCount)))
               /\ pc' = Upd(pc, r, "multi")
          ELSE /\ pc' = Upd(pc, r, "threw")
               /\ UNCHANGED <<docText, edits, notices>>
    /\ UNCHANGED <<exists, isProcessing, foldersToDelete, deleteFolders, folderIdx,
                   fileOps>>

\* the decision logic with the lock taken when the modal opens
Decide_LocksOnModal(r, file, refs) ==
    LET plan == calculateCascadeFolders(file)
    IN  /\ targetFile' = Upd(targetFile, r, file)
        /\ refData' = Upd(refData, r, refs)
        /\ foldersToDelete' = Upd(foldersToDelete, r, plan)
        /\ IF Gate(plan) = "file_only" THEN executeDelete(r, FALSE, file)
           ELSE IF Gate(plan) = "silent" THEN executeDelete(r, TRUE, file)
           ELSE /\ pc' = Upd(pc, r, "modal")
                /\ isProcessing' = TRUE
                /\ UNCHANGED <<deleteFolders, fileOps>>
        /\ UNCHANGED <<exists, docText, folderIdx, edits, notices>>

\* processDeleteRequest from the plan on: the decision logic
Decide(r, file, refs) ==
    LET plan == calculateCascadeFolders(file)
    IN  /\ targetFile' = Upd(targetFile, r, file)
        /\ refData' = Upd(refData, r, refs)
        /\ foldersToDelete' = Upd(foldersToDelete, r, plan)
        /\ IF Gate(plan) = "file_only" THEN executeDelete(r, FALSE, file)
           ELSE IF Gate(plan) = "silent" THEN executeDelete(r, TRUE, file)
           ELSE /\ pc' = Upd(pc, r, "modal")
                /\ UNCHANGED <<isProcessing, deleteFolders, fileOps>>
        /\ UNCHANGED <<exists, docText, folderIdx, edits, notices>>

\* processDeleteRequest with the test of line 74 on fileCount
processDeleteRequest_TestsFileCount(r) ==
    IF isProcessing
    THEN /\ pc' = Upd(pc, r, "dropped")
         /\ UNCHANGED <<exists, docText, isProcessing, targetFile, refData,
                        foldersToDelete, deleteFolders, folderIdx, fileOps, edits,
                        notices>>
    ELSE LET file == getFirstLinkpathDest(linkInfo[r].linkText)
         IN  IF file = Null THEN LinkNotFound(r)
             ELSE IF getReferences(file).fileCount > 1
                  THEN MultiplyReferenced(r, file, getReferences(file))
             ELSE Decide(r, file, getReferences(file))

\* processDeleteRequest without its entry guard
processDeleteRequest_NoGuard(r) ==
    LET file == getFirstLinkpathDest(linkInfo[r].linkText)
    IN  IF file = Null THEN LinkNotFound(r)
        ELSE IF getReferences(file).totalCount > 1
             THEN MultiplyReferenced(r, file, getReferences(file))
        ELSE Decide(r, file, getReferences(file))

\* processDeleteRequest, up to its first await or its return
processDeleteRequest(r) ==
    IF isProcessing
    THEN /\ pc' = Upd(pc, r, "dropped")
         /\ UNCHANGED <<exists, docText, isProcessing, targetFile, refData,
                        foldersToDelete, deleteFolders, folderIdx, fileOps, edits,
                        notices>>
    ELSE LET file == getFirstLinkpathDest(linkInfo[r].linkText)
         IN  IF file = Null THEN LinkNotFound(r)
             ELSE IF getReferences(file).totalCount > 1
                  THEN MultiplyReferenced(r, file, getReferences(file))
             ELSE Decide(r, file, getReferences(file))

\* the menu item is clicked
Click(r) ==
    /\ pc[r] = "menu"
    /\ processDeleteRequest(r)
    /\ UNCHANGED <<resolvedLinks, settings, persisted, saving, onloads, shown, cursorCh, linkInfo, choice>>

\* the callback with executeDelete(true) for both buttons that delete
ModalAnswer_AlwaysCascades(r) ==
    /\ pc[r] = "modal"
    /\ \E c \in {"cancel", "file_only", "all"} :
          /\ choice' = Upd(choice, r, c)
          /\ IF c = "all" THEN executeDelete(r, TRUE, targetFile[r])
             ELSE IF c = "file_only" THEN executeDelete(r, TRUE, targetFile[r])
             ELSE /\ pc' = Upd(pc, r, "cancelled")
                  /\ UNCHANGED <<isProcessing, deleteFolders, fileOps>>
    /\ UNCHANGED <<exists, resolvedLinks, docText, settings, persisted, saving, onloads, shown, cursorCh, linkInfo, targetFile,
                   refData, foldersToDelete, folderIdx, edits, notices>>

\* a button of DeleteConfirmModal is pressed: the callback, then close()
\* the answer of the modal computing the plan again from the vault and the settings
\* as they are when the button is clicked
ModalAnswer_Replans(r) ==
    /\ pc[r] = "modal"
    /\ foldersToDelete' = Upd(foldersToDelete, r, calculateCascadeFolders(targetFile[r]))
    /\ \E c \in {"cancel", "file_only", "all"} :
          /\ choice' = Upd(choice, r, c)
          /\ IF c = "all" THEN executeDelete(r, TRUE, targetFile[r])
             ELSE IF c = "file_only" THEN executeDelete(r, FALSE, targetFile[r])
             ELSE /\ pc' = Upd(pc, r, "cancelled")
                  /\ UNCHANGED <<isProcessing, deleteFolders, fileOps>>
    /\ UNCHANGED <<exists, resolvedLinks, docText, settings, persisted, saving, onloads, shown,
                   cursorCh, linkInfo, targetFile, refData, folderIdx, edits, notices>>

ModalAnswer(r) ==
    /\ pc[r] = "modal"
    /\ \E c \in {"cancel", "file_only", "all"} :
          /\ choice' = Upd(choice, r, c)
          /\ IF c = "all" THEN executeDelete(r, TRUE, targetFile[r])
             ELSE IF c = "file_only" THEN executeDelete(r, FALSE, targetFile[r])
             ELSE /\ pc' = Upd(pc, r, "cancelled")
                  /\ UNCHANGED <<isProcessing, deleteFolders, fileOps>>
    /\ UNCHANGED <<exists, resolvedLinks, docText, settings, persisted, saving, onloads, shown, cursorCh, linkInfo, targetFile,
                   refData, foldersToDelete, folderIdx, edits, notices>>

\* the steps after the deletion with a cascade that does not look at deleteFolders
AfterDeletion_IgnoresChoice(r, ed, ops) ==
    /\ exists' = Removed(exists, targetFile[r])
    /\ IF ~ed.ok
       THEN /\ Catch(r, ed, ops)
            /\ UNCHANGED <<docText, edits, folderIdx>>
       ELSE /\ docText' = replaceRange(docText, linkInfo[r].start, linkInfo[r].end)
            /\ edits' = Upd(edits, r, edits[r] + 1)
            /\ IF Len(foldersToDelete[r]) > 0
               THEN CascadeLoop(r, 1, Removed(exists, targetFile[r]), ops)
               ELSE /\ Succeed(r, Notice("deleted", 0), ops)
                    /\ UNCHANGED folderIdx

\* executeDelete after the attachment's deletion returned: the text edit, then
\* the cascade or the notice
AfterDeletion(r, ed, ops) ==
    /\ exists' = Removed(exists, targetFile[r])
    /\ IF ~ed.ok
       THEN /\ Catch(r, ed, ops)
            /\ UNCHANGED <<docText, edits, folderIdx>>
       ELSE /\ docText' = replaceRange(docText, linkInfo[r].start, linkInfo[r].end)
            /\ edits' = Upd(edits, r, edits[r] + 1)
            /\ IF deleteFolders[r] /\ Len(foldersToDelete[r]) > 0
               THEN CascadeLoop(r, 1, Removed(exists, targetFile[r]), ops)
               ELSE /\ Succeed(r, Notice("deleted", 0), ops)
                    /\ UNCHANGED folderIdx

\* the text edited before the deletion is known to have succeeded
DeletionThrew_StripsText(r, err, ops) ==
    /\ Catch(r, err, ops)
    /\ docText' = replaceRange(docText, linkInfo[r].start, linkInfo[r].end)
    /\ edits' = Upd(edits, r, edits[r] + 1)
    /\ UNCHANGED <<exists, folderIdx>>

\* executeDelete after the attachment's deletion threw
DeletionThrew(r, err, ops) ==
    /\ Catch(r, err, ops)
    /\ UNCHANGED <<exists, docText, edits, folderIdx>>

\* the call that deletes the attachment returns or throws
TargetDeleted(r) ==
    /\ pc[r] = "deleting"
    /\ \E res \in Outcomes :
          IF res.ok THEN \E ed \in Outcomes : AfterDeletion(r, ed, Settled(r, res))
          ELSE DeletionThrew(r, res, Settled(r, res))
    /\ UNCHANGED <<resolvedLinks, settings, persisted, saving, onloads, shown, cursorCh, linkInfo, targetFile, refData,
                   foldersToDelete, deleteFolders, choice>>

\* the call that deletes a planned folder returns or throws
FolderDeleted(r) ==
    /\ pc[r] = "cascade"
    /\ \E res \in Outcomes :
          IF res.ok
          THEN /\ exists' = Removed(exists, foldersToDelete[r][folderIdx[r]])
               /\ CascadeLoop(r, folderIdx[r] + 1,
                              Removed(exists, foldersToDelete[r][folderIdx[r]]),
                              Settled(r, res))
          ELSE /\ Catch(r, res, Settled(r, res))
               /\ UNCHANGED <<exists, folderIdx>>
    /\ UNCHANGED <<resolvedLinks, docText, settings, persisted, saving, onloads, shown, cursorCh, linkInfo, targetFile, refData,
                   foldersToDelete, deleteFolders, choice, edits>>

(***************************************************************************)
(* The orchestrator: requests, modal answers and completions interleaved.  *)
(***************************************************************************)
BaseTree == {Root, "A", "A/B", "A/B/C", "A/B/C/file.png"}

\* a vault and the current note in it: the line of links and the index of the notes
Scenarios ==
    {[tree  |-> BaseTree,
      text  |-> <<"!", "[", "[", "f", "i", "l", "e", ".", "p", "n", "g", "]", "]", "[", "o", "]", "(", "o", "t", "h", "e", "r", ".", "p", "n", "g", ")">>,
      links |-> ("note.md" :> (("A/B/C/file.png" :> 1) @@ ("A/B/C/other.png" :> 1)))],
     [tree  |-> BaseTree \cup {"A/keep.png"},
      text  |-> <<"!", "[", "[", "f", "i", "l", "e", ".", "p", "n", "g", "]", "]", "[", "o", "]", "(", "o", "t", "h", "e", "r", ".", "p", "n", "g", ")">>,
      links |-> ("note.md" :> (("A/B/C/file.png" :> 1) @@ ("A/B/C/other.png" :> 1)))],
     [tree  |-> BaseTree \cup {"A/B/C/other.png", "A/B/C/.DS_Store", "A/B/Thumbs.db"},
      text  |-> <<"!", "[", "[", "f", "i", "l", "e", ".", "p", "n", "g", "]", "]", "[", "o", "]", "(", "o", "t", "h", "e", "r", ".", "p", "n", "g", ")">>,
      links |-> ("note.md" :> (("A/B/C/file.png" :> 1) @@ ("A/B/C/other.png" :> 1)))],
     [tree  |-> BaseTree,
      text  |-> <<"!", "[", "[", "f", "i", "l", "e", ".", "p", "n", "g", "]", "]", "!", "[", "[", "f", "i", "l", "e", ".", "p", "n", "g", "|", "a", "]", "]">>,
      links |-> ("note.md" :> ("A/B/C/file.png" :> 2))],
     [tree  |-> BaseTree \cup {"A/B/C/other.png", "A/B/C/.DS_Store", "A/B/Thumbs.db"},
      text  |-> <<"!", "[", "[", "o", "t", "h", "e", "r", ".", "p", "n", "g", "]", "]", "!", "[", "[", "g", "o", "n", "e", ".", "p", "n", "g", "]", "]">>,
      links |-> ("note.md" :> ("A/B/C/other.png" :> 1)) @@
                ("other.md" :> (("A/B/C/file.png" :> 1) @@ ("A/B/C/other.png" :> 1)))]}

StopChoices == {Assets, <<" ", "B", ",">>}

\* settings the tab can leave behind: the fields of the gate are varied together (a
\* switch that hides a field leaves the field at its default), the barrier list and
\* the trash strategy are varied on the default settings
SettingsChoices ==
    {s \in [enableCascade : BOOLEAN, stopFolders : StopChoices,
            enableWarning : BOOLEAN,
            warningThreshold : {Number(n) : n \in 1..MaxThreshold},
            trashStrategy : TrashStrategies] :
        /\ ~s.enableCascade => s.enableWarning = DEFAULT_SETTINGS.enableWarning
        /\ ~(s.enableCascade /\ s.enableWarning) =>
              s.warningThreshold = DEFAULT_SETTINGS.warningThreshold
        /\ s.stopFolders # DEFAULT_SETTINGS.stopFolders =>
              s = [DEFAULT_SETTINGS EXCEPT !.stopFolders = s.stopFolders]
        /\ s.trashStrategy # DEFAULT_SETTINGS.trashStrategy =>
              s = [DEFAULT_SETTINGS EXCEPT !.trashStrategy = s.trashStrategy]}

InitRequests ==
    /\ isProcessing = FALSE
    /\ pc = [r \in Reqs |-> "idle"]
    /\ cursorCh = [r \in Reqs |-> -1]
    /\ saving = <<>>
    /\ onloads = <<"done">>
    /\ shown = display(settings)
    /\ linkInfo = [r \in Reqs |-> NoLink]
    /\ targetFile = [r \in Reqs |-> Null]
    /\ refData = [r \in Reqs |-> NoRefData]
    /\ foldersToDelete = [r \in Reqs |-> <<>>]
    /\ deleteFolders = [r \in Reqs |-> FALSE]
    /\ folderIdx = [r \in Reqs |-> 0]
    /\ choice = [r \in Reqs |-> "none"]
    /\ fileOps = [r \in Reqs |-> <<>>]
    /\ edits = [r \in Reqs |-> 0]
    /\ notices = [r \in Reqs |-> <<>>]

Init ==
    /\ \E scenario \in Scenarios :
          /\ exists = scenario.tree
          /\ docText = scenario.text
          /\ resolvedLinks = scenario.links
    /\ settings \in SettingsChoices
    /\ InitRequests
    /\ persisted = settings

Next ==
    \E r \in Reqs :
        \/ MenuOpen(r)
        \/ Click(r)
        \/ ModalAnswer(r)
        \/ TargetDeleted(r)
        \/ FolderDeleted(r)

Spec == Init /\ [][Next]_vars

(***************************************************************************)
(* The orchestrator while the host re-resolves the links of the notes: the *)
(* index that getReferences reads changes between requests.                *)
(***************************************************************************)
RECURSIVE WikiTargets(_, _)
\* the link texts of the wiki links of a line, in their order
WikiTargets(s, from) ==
    LET m == WikiExec(s, from)
    IN  IF m = NoMatch THEN <<>> ELSE <<m.linkText>> \o WikiTargets(s, m.end)

RECURSIVE MdTargets(_, _)
\* the link texts of the markdown links of a line, in their order
MdTargets(s, from) ==
    LET m == MdExec(s, from)
    IN  IF m = NoMatch THEN <<>>
        ELSE <<decodeURIComponent(m.linkText)>> \o MdTargets(s, m.end)

\* resolvedLinks[note] as the host computes it from the text of the note: for
\* each file that a link of the text resolves to, the number of such links
NoteIndex(text) ==
    LET links == WikiTargets(text, 0) \o MdTargets(text, 0)
        dest == [i \in 1..Len(links) |-> getFirstLinkpathDest(links[i])]
    IN  [f \in {dest[i] : i \in 1..Len(links)} \ {Null} |->
            Cardinality({i \in 1..Len(links) : dest[i] = f})]

\* the host re-resolves the links of the current note after its text or the vault
\* changed, and replaces metadataCache.resolvedLinks
Reindex ==
    /\ resolvedLinks' = [resolvedLinks EXCEPT ![CurrentNote] = NoteIndex(docText)]
    /\ resolvedLinks' # resolvedLinks
    /\ UNCHANGED <<exists, docText, settings, persisted, saving, onloads, shown, cursorCh, isProcessing, pc, linkInfo, targetFile,
                   refData, foldersToDelete, deleteFolders, folderIdx, choice, fileOps,
                   edits, notices>>

\* every scenario, under the default settings with the warning on and off
InitIndex ==
    /\ Init
    /\ settings \in {[DEFAULT_SETTINGS EXCEPT !.enableWarning = w] : w \in BOOLEAN}

NextIndex ==
    \/ Next
    \/ Reindex

SpecIndex == InitIndex /\ [][NextIndex]_vars


(***************************************************************************)
(* The cascade folder calculator on its own: every vault over the nodes,   *)
(* every barrier list, every file as the target.                           *)
(***************************************************************************)
StopChoicesAll ==
    {Assets, <<>>, <<"B">>, <<" ", "B", " ", ",">>, <<"b">>,
     <<"C", ",", " ", "A">>, <<"B", " ", "C">>}

InitCascade ==
    /\ exists \in {S \in SUBSET Nodes : IsTree(S)}
    /\ settings \in {[DEFAULT_SETTINGS EXCEPT !.enableCascade = c, !.stopFolders = s] :
                        c \in BOOLEAN, s \in StopChoicesAll}
    /\ docText = <<>>
    /\ resolvedLinks = <<>>
    /\ InitRequests
    /\ persisted = settings

\* calculateCascadeFolders(targetFile) for a file of the vault
PlanFor(r) ==
    /\ pc[r] = "idle"
    /\ \E file \in exists \cap Files :
          /\ targetFile' = Upd(targetFile, r, file)
          /\ foldersToDelete' = Upd(foldersToDelete, r, calculateCascadeFolders(file))
    /\ pc' = Upd(pc, r, "planned")
    /\ UNCHANGED <<exists, resolvedLinks, docText, settings, persisted, saving, onloads, shown, cursorCh, isProcessing, linkInfo,
                   refData, deleteFolders, folderIdx, choice, fileOps, edits, notices>>

NextCascade == PlanFor(1)

SpecCascade == InitCascade /\ [][NextCascade]_vars

(***************************************************************************)
(* The settings: loadSettings, the handlers of the settings tab and the    *)
(* saves they start.                                                       *)
(***************************************************************************)
\* Object.assign({}, DEFAULT_SETTINGS, data): the fields of data over the defaults
\* (loadData gives null, here the empty record, when nothing was stored)
loadSettings(data) ==
    [k \in DOMAIN DEFAULT_SETTINGS \cup DOMAIN data |->
        IF k \in DOMAIN data THEN data[k] ELSE DEFAULT_SETTINGS[k]]

\* the values of the digits of the radix at the head of s
DigitRun(s, radix) ==
    LET digit(i) == s[i] \in DOMAIN HexValue /\ HexValue[s[i]] < radix
        n == IF \A i \in 1..Len(s) : digit(i) THEN Len(s)
             ELSE (CHOOSE i \in 1..Len(s) : ~digit(i) /\ \A j \in 1..(i - 1) : digit(j)) - 1
    IN  [i \in 1..n |-> HexValue[s[i]]]

\* a numeral without its leading zeros: empty for zero
StripZeros(d) ==
    IF \A i \in 1..Len(d) : d[i] = 0 THEN <<>>
    ELSE SubSeq(d, CHOOSE i \in 1..Len(d) : d[i] # 0 /\ \A j \in 1..(i - 1) : d[j] = 0,
                Len(d))

RECURSIVE ValueOf(_, _, _)
\* the integer a short numeral d of the radix denotes
ValueOf(d, radix, acc) ==
    IF d = <<>> THEN acc ELSE ValueOf(Tail(d), radix, radix * acc + Head(d))

\* half a decimal numeral, rounded down: each digit takes the remainder of the one
\* before it
Halve(d) ==
    StripZeros([i \in 1..Len(d) |->
                   (10 * (IF i > 1 THEN d[i - 1] % 2 ELSE 0) + d[i]) \div 2])

\* twice a decimal numeral plus a bit: each digit takes the carry of the one after it
Double(d, bit) ==
    LET carry(i) == IF i <= Len(d) /\ d[i] >= 5 THEN 1 ELSE 0
    IN  (IF carry(1) = 1 THEN <<1>> ELSE <<>>) \o
        (IF d = <<>> /\ bit = 1 THEN <<1>>
         ELSE [i \in 1..Len(d) |->
                 (2 * d[i] + (IF i = Len(d) THEN bit ELSE carry(i + 1))) % 10])

RECURSIVE TakeBits(_, _)
\* n binary digits taken from a decimal numeral, half of them and then the others:
\* st.q is what is left of the numeral, st.bits the digits taken so far, highest
\* first (the test on st has it evaluated before the recursion goes on)
TakeBits(n, st) ==
    IF n = 0 \/ Len(st.bits) < 0 THEN st
    ELSE IF n = 1
    THEN [q |-> Halve(st.q),
          bits |-> <<IF st.q = <<>> THEN 0 ELSE st.q[Len(st.q)] % 2>> \o st.bits]
    ELSE TakeBits(n - (n \div 2), TakeBits(n \div 2, st))

\* the binary digits of a decimal numeral without leading zeros, highest first
DecimalToBits(d) == StripZeros(TakeBits(4 * Len(d), [q |-> d, bits |-> <<>>]).bits)

\* the binary digits of a hexadecimal numeral, four for each digit
HexToBits(d) ==
    [k \in 1..(4 * Len(d)) |->
        LET h == d[((k - 1) \div 4) + 1]
            p == (k - 1) % 4
        IN  IF p = 0 THEN h \div 8
            ELSE IF p = 1 THEN (h \div 4) % 2
            ELSE IF p = 2 THEN (h \div 2) % 2
            ELSE h % 2]

\* a binary numeral plus one
Increment(bits) ==
    IF \A k \in 1..Len(bits) : bits[k] = 1 THEN <<1>> \o [k \in 1..Len(bits) |-> 0]
    ELSE LET p == CHOOSE k \in 1..Len(bits) :
                     bits[k] = 0 /\ \A j \in (k + 1)..Len(bits) : bits[j] = 1
         IN  [k \in 1..Len(bits) |-> IF k < p THEN bits[k] ELSE IF k = p THEN 1 ELSE 0]

\* the binary digits of the double nearest to a binary numeral without leading
\* zeros: 53 significant digits, a tie going to the even one
Round53(bits) ==
    IF Len(bits) <= 53 THEN bits
    ELSE LET kept == SubSeq(bits, 1, 53)
             half == bits[54] = 1
             more == \E k \in 55..Len(bits) : bits[k] = 1
             up == half /\ (more \/ kept[53] = 1)
         IN  (IF up THEN Increment(kept) ELSE kept) \o [k \in 1..(Len(bits) - 53) |-> 0]

RECURSIVE BitsToDecimal(_, _, _, _)
\* the decimal numeral of the binary digits lo to hi of bits read after acc, half
\* of them and then the others (the test on acc has it evaluated before the
\* recursion goes on)
BitsToDecimal(bits, lo, hi, acc) ==
    IF lo > hi \/ Len(acc) < 0 THEN acc
    ELSE IF lo = hi THEN Double(acc, bits[lo])
    ELSE LET mid == (lo + hi) \div 2
         IN  BitsToDecimal(bits, mid + 1, hi, BitsToDecimal(bits, lo, mid, acc))

\* the number an integer of the given sign and decimal digits is
FromDecimal(neg, d) ==
    IF Len(d) <= 9
    THEN [kind |-> "int", neg |-> neg, digits |-> <<>>,
          val |-> IF neg THEN 0 - ValueOf(d, 10, 0) ELSE ValueOf(d, 10, 0)]
    ELSE BigInteger(neg, d)

\* the double of an integer numeral of the radix, without leading zeros: the
\* integer itself up to 2^53, the nearest double above, an infinity from 2^1024 on
ToDouble(neg, d, radix) ==
    IF radix = 10 /\ Len(d) <= 15 THEN FromDecimal(neg, d)
    ELSE IF radix = 10 /\ Len(d) > 309 THEN Infinity(neg)
    ELSE IF radix = 16 /\ Len(d) > 256 THEN Infinity(neg)
    ELSE LET bits == IF radix = 16 THEN StripZeros(HexToBits(d)) ELSE DecimalToBits(d)
             rounded == Round53(bits)
         IN  IF Len(rounded) > 1024 THEN Infinity(neg)
             ELSE FromDecimal(neg, BitsToDecimal(rounded, 1, Len(rounded), <<>>))

\* parseInt(value): leading white space, a sign, then the digits: hexadecimal ones
\* after 0x or 0X, decimal ones otherwise; what follows the digits is ignored; NaN
\* when there is no digit; the result is a double
parseInt(value) ==
    LET t == TrimStart(value)
        neg == t # <<>> /\ Head(t) = "-"
        body == IF t # <<>> /\ Head(t) \in {"-", "+"} THEN Tail(t) ELSE t
        hex == Len(body) >= 2 /\ body[1] = "0" /\ body[2] \in {"x", "X"}
        radix == IF hex THEN 16 ELSE 10
        run == DigitRun(IF hex THEN SubSeq(body, 3, Len(body)) ELSE body, radix)
    IN  IF run = <<>> THEN NaN ELSE ToDouble(neg, StripZeros(run), radix)

\* this.plugin.saveSettings(): saveData is called with the settings as they are;
\* redisplay tells whether the handler calls display() once the save is done, and
\* tab which tab the handler belongs to: the one added by the latest onload
saveSettings(new, redisplay) ==
    /\ Len(saving) < MaxSaves
    /\ settings' = new
    /\ saving' = Append(saving, [data |-> new, redisplay |-> redisplay,
                                 tab |-> Len(onloads)])
    /\ UNCHANGED <<exists, resolvedLinks, docText, persisted, onloads, shown, cursorCh,
                   isProcessing, pc, linkInfo, targetFile, refData, foldersToDelete, deleteFolders,
                   folderIdx, choice, fileOps, edits, notices>>

\* onChange of the trash strategy dropdown
SetTrashStrategy(value) ==
    saveSettings([settings EXCEPT !.trashStrategy = value], FALSE)

\* onChange of the cascade toggle
ToggleCascade(value) ==
    saveSettings([settings EXCEPT !.enableCascade = value], TRUE)

\* onChange of the barrier list, a field built while cascading is on
SetStopFolders(value) ==
    /\ shown.cascade
    /\ saveSettings([settings EXCEPT !.stopFolders = value], FALSE)

\* onChange of the warning toggle, built while cascading is on
ToggleWarning(value) ==
    /\ shown.cascade
    /\ saveSettings([settings EXCEPT !.enableWarning = value], TRUE)

\* onChange of the threshold field, built while cascading and warnings are on
SetThreshold(value) ==
    /\ shown.warning
    /\ LET num == parseInt(value)
       IN  saveSettings([settings EXCEPT !.warningThreshold =
                            IF isNaN(num) \/ Less(num, Number(1)) THEN Number(1) ELSE num],
                        FALSE)

\* the data as the host stores them and loadData gives them back: JSON
toJson(data) == [data EXCEPT !.warningThreshold = JsonNumber(@)]

\* a call of saveData completes: the host has stored its data, and the handler of a
\* toggle goes on to call this.display() of its own tab, which builds the fields
\* from the settings as they are now; the tab of a start before is no longer the
\* one the host shows, and the fields shown stay as they are
SaveDone ==
    /\ saving # <<>>
    /\ persisted' = toJson(Head(saving).data)
    /\ saving' = Tail(saving)
    /\ shown' = IF Head(saving).redisplay /\ Head(saving).tab = Len(onloads)
                THEN display(settings) ELSE shown
    /\ UNCHANGED <<exists, resolvedLinks, docText, settings, onloads, cursorCh, isProcessing,
                   pc, linkInfo, targetFile, refData, foldersToDelete, deleteFolders,
                   folderIdx, choice, fileOps, edits, notices>>

\* the host shows the tab again (the user leaves it and comes back) and calls
\* display(): the fields are built from the settings as they are, a save pending or
\* not; there is no tab before loadSettings has returned (addSettingTab follows it)
TabShown ==
    /\ onloads[Len(onloads)] = "done"
    /\ shown' = display(settings)
    /\ shown' # shown
    /\ UNCHANGED <<exists, resolvedLinks, docText, settings, persisted, saving, onloads, cursorCh,
                   isProcessing, pc, linkInfo, targetFile, refData, foldersToDelete,
                   deleteFolders, folderIdx, choice, fileOps, edits, notices>>

\* the plugin is started again, onload up to its await: the lock is reset and
\* loadSettings calls loadData; calls of saveData still pending go on in the host,
\* which starts the plugin when the start before has returned
onload ==
    /\ Len(onloads) < MaxLoads
    /\ onloads[Len(onloads)] = "done"
    /\ isProcessing' = FALSE
    /\ onloads' = Append(onloads, "loading")
    /\ UNCHANGED <<exists, resolvedLinks, docText, settings, persisted, saving, shown, cursorCh,
                   pc, linkInfo, targetFile, refData, foldersToDelete, deleteFolders,
                   folderIdx, choice, fileOps, edits, notices>>

\* loadData gives what the host has stored by now, a save pending or not, and
\* loadSettings assigns this.settings; addSettingTab follows, and display() builds
\* the fields of that tab from these settings
loadDataDone ==
    /\ onloads[Len(onloads)] = "loading"
    /\ settings' = loadSettings(persisted)
    /\ onloads' = [onloads EXCEPT ![Len(onloads)] = "done"]
    /\ shown' = display(settings')
    /\ UNCHANGED <<exists, resolvedLinks, docText, persisted, saving, cursorCh,
                   isProcessing, pc, linkInfo, targetFile, refData, foldersToDelete,
                   deleteFolders, folderIdx, choice, fileOps, edits, notices>>

\* what is typed into the threshold field
ThresholdInputs ==
    {<<>>, <<"x">>, <<"0">>, <<"-", "1">>, <<"1">>, <<" ", "2">>, <<"2", ".", "5">>,
     <<"3", "x">>, <<"\r", "2">>, <<"0", "x", "3">>, <<"0", "x">>,
     <<"9", "0", "0", "7", "1", "9", "9", "2", "5", "4", "7", "4", "0", "9", "9", "3">>,
     [k \in 1..310 |-> "9"]}

\* data the plugin finds at startup: none, the record an earlier version stored
\* (it had no trashStrategy), a record of this version
PersistedChoices ==
    {<<>>,
     [enableCascade |-> TRUE, stopFolders |-> <<>>, enableWarning |-> TRUE,
      warningThreshold |-> Number(2)],
     [DEFAULT_SETTINGS EXCEPT !.trashStrategy = "permanent", !.warningThreshold = Number(1)]}

InitSettings ==
    /\ exists = BaseTree
    /\ docText = <<>>
    /\ resolvedLinks = <<>>
    /\ persisted \in PersistedChoices
    /\ settings = loadSettings(persisted)
    /\ InitRequests

\* the fields of the tab are used; there is a tab once loadSettings has returned
SettingsTab ==
    \/ \E value \in TrashStrategies :
          onloads[Len(onloads)] = "done" /\ SetTrashStrategy(value)
    \/ \E value \in BOOLEAN :
          /\ onloads[Len(onloads)] = "done"
          /\ value # settings.enableCascade
          /\ ToggleCascade(value)
    \/ \E value \in StopChoices :
          onloads[Len(onloads)] = "done" /\ SetStopFolders(value)
    \/ \E value \in BOOLEAN :
          /\ onloads[Len(onloads)] = "done"
          /\ value # settings.enableWarning
          /\ ToggleWarning(value)
    \/ \E value \in ThresholdInputs :
          onloads[Len(onloads)] = "done" /\ SetThreshold(value)

NextSettings ==
    \/ SettingsTab
    \/ TabShown
    \/ SaveDone
    \/ onload
    \/ loadDataDone

SpecSettings == InitSettings /\ [][NextSettings]_vars

(***************************************************************************)
(* The orchestrator while the vault, the index and the settings change     *)
(* under an open confirmation modal.                                       *)
(***************************************************************************)
\* a confirmation modal is open
ModalOpen == \E r \in Reqs : pc[r] = "modal"

\* the vault gains a file: folder.children and getAbstractFileByPath read the vault
\* of the host as it is when they are called
FileAdded(f) ==
    /\ f \notin exists
    /\ Parent[f] \in exists
    /\ exists' = exists \cup {f}
    /\ UNCHANGED <<resolvedLinks, docText, settings, persisted, saving, onloads, shown, cursorCh,
                   isProcessing, pc, linkInfo, targetFile, refData, foldersToDelete,
                   deleteFolders, folderIdx, choice, fileOps, edits, notices>>

\* another note gains a link to f: metadataCache.resolvedLinks is the index of the
\* host as it is when getReferences reads it
LinkAdded(f) ==
    /\ f \in exists
    /\ IF "other.md" \in DOMAIN resolvedLinks
       THEN f \notin DOMAIN resolvedLinks["other.md"] ELSE TRUE
    /\ resolvedLinks' =
          IF "other.md" \in DOMAIN resolvedLinks
          THEN [resolvedLinks EXCEPT !["other.md"] = (f :> 1) @@ @]
          ELSE ("other.md" :> (f :> 1)) @@ resolvedLinks
    /\ UNCHANGED <<exists, docText, settings, persisted, saving, onloads, shown, cursorCh,
                   isProcessing, pc, linkInfo, targetFile, refData, foldersToDelete,
                   deleteFolders, folderIdx, choice, fileOps, edits, notices>>

\* the settings tab used under the open modal: the fields of the cascade
TabUnderModal ==
    \/ ToggleCascade(~settings.enableCascade)
    \/ SetStopFolders(<<" ", "B", ",">>)

InitStale ==
    /\ Init
    /\ settings = DEFAULT_SETTINGS
    /\ exists = BaseTree
    /\ getReferences("A/B/C/file.png").totalCount = 1

NextStale ==
    \/ Next
    \/ ModalOpen /\ TabUnderModal
    \/ ModalOpen /\ TabShown
    \/ ModalOpen /\ FileAdded("A/B/C/other.png")
    \/ ModalOpen /\ LinkAdded("A/B/C/file.png")
    \/ SaveDone

SpecStale == InitStale /\ [][NextStale]_vars

(***************************************************************************)
(* The orchestrator while the settings tab is used under an open           *)
(* confirmation modal: the vault is changed by the deletions of the         *)
(* orchestrator alone.                                                     *)
(***************************************************************************)
NextTab ==
    \/ Next
    \/ ModalOpen /\ TabUnderModal
    \/ ModalOpen /\ TabShown
    \/ SaveDone

SpecTab == Init /\ [][NextTab]_vars

(***************************************************************************)
(* The link locator on its own: lines of a note, every cursor offset.      *)
(***************************************************************************)
\* lines with wiki links and markdown links, embedded or not, alone, side by side,
\* after other brackets and after a bracket that a line separator follows
Lines ==
    {<<"a", "[", "[", "t", "]", "]", "b">>,
     <<"!", "[", "[", "t", "|", "x", "]", "]">>,
     <<"[", "[", "a", "]", "]", " ", "[", "[", "b", "]", "]">>,
     <<"x", "[", "l", "]", "(", "t", ")">>,
     <<"!", "[", "l", "]", "(", "t", "%", "2", "0", "u", ")", " ">>,
     <<"[", "l", "]", "(", "t", ")", "[", "[", "a", "]", "]">>,
     <<"[", "[", "a", "]", "]", "[", "b", "]", "(", "c", ")">>,
     <<"[", "x", "]", " ", "[", "l", "]", "(", "t", ")">>,
     <<"[", "x", "U+2028", "]", " ", "[", "l", "]", "(", "t", ")">>,
     <<"[", "l", "]", "(", "%", "C", "3", "%", "A", "9", "%", "4", "1", ")">>,
     <<"a", "]", "]", " ", "(", "b", ")">>}

InitLink ==
    /\ docText \in Lines
    /\ exists = BaseTree
    /\ resolvedLinks = <<>>
    /\ settings = DEFAULT_SETTINGS
    /\ InitRequests
    /\ persisted = settings

\* getLinkUnderCursor(lineText, cursor) at an offset of the line
Locate(r) ==
    /\ pc[r] = "idle"
    /\ \E ch \in 0..Len(docText) :
          /\ cursorCh' = Upd(cursorCh, r, ch)
          /\ linkInfo' = Upd(linkInfo, r, getLinkUnderCursor(docText, [line |-> 0, ch |-> ch]))
    /\ pc' = Upd(pc, r, "located")
    /\ UNCHANGED <<exists, resolvedLinks, docText, settings, persisted, saving, onloads, shown,
                   isProcessing, targetFile,
                   refData, foldersToDelete, deleteFolders, folderIdx, choice, fileOps,
                   edits, notices>>

NextLink == \E r \in Reqs : Locate(r)

SpecLink == InitLink /\ [][NextLink]_vars

(***************************************************************************)
(* The calculator while the host adds and removes system-noise files: the  *)
(* first plan is computed on a vault without noise, the later ones after   *)
(* noise files came and went in the folders above the target.              *)
(***************************************************************************)
InitNoise ==
    /\ InitCascade
    /\ \A n \in exists : ~isSystem(n)

\* between two computations of the plan the host creates or removes the
\* system-noise file n in a folder of the vault
ToggleNoise(n) ==
    /\ \E r \in Reqs : pc[r] = "planned"
    /\ \E r \in Reqs : pc[r] = "idle"
    /\ isSystem(n)
    /\ Parent[n] \in exists
    /\ exists' = IF n \in exists THEN exists \ {n} ELSE exists \cup {n}
    /\ UNCHANGED <<resolvedLinks, docText, settings, persisted, saving, onloads, shown, cursorCh, isProcessing, pc, linkInfo,
                   targetFile, refData, foldersToDelete, deleteFolders, folderIdx,
                   choice, fileOps, edits, notices>>

NextNoise ==
    \/ \E r \in Reqs : PlanFor(r)
    \/ \E n \in Files : ToggleNoise(n)

SpecNoise == InitNoise /\ [][NextNoise]_vars


(***************************************************************************)
(* Vocabulary of the properties, stated without the program's operators.   *)
(***************************************************************************)
\* name is one of the trimmed non-empty barrier names of settings.stopFolders: it
\* stands in the list between two commas (or the ends), padded by blanks only
IsBarrierName(name) ==
    LET str == settings.stopFolders
        n == Len(str)
    IN  /\ Len(name) > 0
        /\ \A k \in 1..Len(name) : name[k] # ","
        /\ ~IsSpace(name[1])
        /\ ~IsSpace(name[Len(name)])
        /\ \E i \in 1..n :
              LET j == i + Len(name) - 1
              IN  /\ j <= n
                  /\ SubSeq(str, i, j) = name
                  /\ \A k \in 1..(i - 1) :
                        (\A m \in k..(i - 1) : str[m] # ",") => IsSpace(str[k])
                  /\ \A k \in (j + 1)..n :
                        (\A m \in (j + 1)..k : str[m] # ",") => IsSpace(str[k])

\* a system-noise file
NoiseFile(n) ==
    /\ n \in Files
    /\ Name[n] \in {<<".", "D", "S", "_", "S", "t", "o", "r", "e">>,
                    <<"T", "h", "u", "m", "b", "s", ".", "d", "b">>,
                    <<"D", "e", "s", "k", "t", "o", "p", ".", "i", "n", "i">>}

\* the children a folder has in the vault
ChildrenOf(d) == {c \in exists : Parent[c] = d}

\* the folders above a node
Ancestors(n) == {d \in Folders : d # n /\ IsUnder(n, d)}

Planned(r) == pc[r] = "planned"

\* the message says busy: "EBUSY", or "busy" in any mix of cases
SaysBusy(msg) ==
    \E i \in 1..(Len(msg) - 3) :
        /\ msg[i] \in {"b", "B"}
        /\ msg[i + 1] \in {"u", "U"}
        /\ msg[i + 2] \in {"s", "S"}
        /\ msg[i + 3] \in {"y", "Y"}

(***************************************************************************)
(* C8. The plan of calculateCascadeFolders never holds the root, nor a     *)
(* folder with a barrier name, nor a folder above a barrier folder of the  *)
(* target's chain; it is empty when the target's parent is the root or has *)
(* a barrier name, even when that parent holds nothing but the target.     *)
(***************************************************************************)
C8_PlanExcludesRootAndBarriers ==
    \A r \in Reqs :
        Planned(r) =>
            LET plan == foldersToDelete[r]
                file == targetFile[r]
            IN  /\ \A i \in 1..Len(plan) :
                      /\ plan[i] # Root
                      /\ ~IsBarrierName(Name[plan[i]])
                /\ \A d \in Ancestors(file) :
                      IsBarrierName(Name[d]) =>
                          \A i \in 1..Len(plan) : ~IsUnder(d, plan[i])
                /\ (Parent[file] = Root \/ IsBarrierName(Name[Parent[file]])) =>
                      plan = <<>>

\* a barrier-named parent that holds only the target, with cascading on: no plan
C8_Witness ==
    \E r \in Reqs :
        /\ Planned(r)
        /\ settings.enableCascade
        /\ IsBarrierName(Name[Parent[targetFile[r]]])
        /\ ChildrenOf(Parent[targetFile[r]]) = {targetFile[r]}
        /\ foldersToDelete[r] = <<>>

(***************************************************************************)
(* C9. As claimed: every folder of the plan holds, when the plan is        *)
(* computed, no children other than planned folders below it and           *)
(* system-noise files.                                                     *)
(***************************************************************************)
C9_OnlyPlannedAndNoise ==
    \A r \in Reqs :
        Planned(r) =>
            LET plan == foldersToDelete[r]
            IN  \A i \in 1..Len(plan) :
                    \A c \in ChildrenOf(plan[i]) :
                        \/ NoiseFile(c)
                        \/ \E k \in 1..(i - 1) : plan[k] = c

(***************************************************************************)
(* C9, amended. Every folder of the plan holds, when the plan is computed, *)
(* no children other than the target file itself, planned folders below it *)
(* and system-noise files.                                                 *)
(***************************************************************************)
C9_OnlyTargetPlannedAndNoise ==
    \A r \in Reqs :
        Planned(r) =>
            LET plan == foldersToDelete[r]
            IN  \A i \in 1..Len(plan) :
                    \A c \in ChildrenOf(plan[i]) :
                        \/ c = targetFile[r]
                        \/ NoiseFile(c)
                        \/ \E k \in 1..(i - 1) : plan[k] = c

\* a plan of two folders, each holding a noise file beside the chain
C9_Witness ==
    \E r \in Reqs :
        /\ Planned(r)
        /\ Len(foldersToDelete[r]) >= 2
        /\ \A i \in 1..2 : \E c \in ChildrenOf(foldersToDelete[r][i]) : NoiseFile(c)

(***************************************************************************)
(* C10. With cascading on the plan is the maximal run of ancestors from    *)
(* the target's parent, innermost first: each planned folder is the parent *)
(* of the one before and is empty, noise aside, once the target and the    *)
(* folder before are gone; the folder above the run is the root, has a     *)
(* barrier name or has another child that is not noise. With cascading off *)
(* the plan is empty.                                                      *)
(***************************************************************************)
C10_PlanIsMaximalRun ==
    \A r \in Reqs :
        Planned(r) =>
            LET plan == foldersToDelete[r]
                file == targetFile[r]
                last == IF plan = <<>> THEN file ELSE plan[Len(plan)]
                above == Parent[last]
            IN  IF ~settings.enableCascade THEN plan = <<>>
                ELSE /\ Len(plan) >= 1 => plan[1] = Parent[file]
                     /\ \A i \in 1..(Len(plan) - 1) : plan[i + 1] = Parent[plan[i]]
                     /\ \A i \in 1..Len(plan) :
                           \A c \in ChildrenOf(plan[i]) :
                               \/ c = file
                               \/ (i > 1 /\ c = plan[i - 1])
                               \/ NoiseFile(c)
                     /\ \/ above = Root
                        \/ IsBarrierName(Name[above])
                        \/ \E c \in ChildrenOf(above) : c # last /\ ~NoiseFile(c)

\* a run of two folders that ends below a folder holding another file
C10_Witness ==
    \E r \in Reqs :
        /\ Planned(r)
        /\ settings.enableCascade
        /\ foldersToDelete[r] = <<"A/B/C", "A/B">>
        /\ "A/keep.png" \in exists
        /\ ~IsBarrierName(Name["A"])


(***************************************************************************)
(* The example vault A/B/C/file.png: C holds only the file and B only C.   *)
(***************************************************************************)
\* the request planned for file.png in a vault where B and C hold the chain only
ChainOnly(r) ==
    /\ Planned(r)
    /\ settings.enableCascade
    /\ targetFile[r] = "A/B/C/file.png"
    /\ ChildrenOf("A/B/C") = {"A/B/C/file.png"}
    /\ ChildrenOf("A/B") = {"A/B/C"}

\* settings.stopFolders names no folder: it holds commas and blanks only
NoBarrierConfigured ==
    \A k \in 1..Len(settings.stopFolders) :
        settings.stopFolders[k] = "," \/ IsSpace(settings.stopFolders[k])

(***************************************************************************)
(* C11. As claimed: for A/B/C/file.png where B and C hold only the target  *)
(* chain and no barrier name is configured the plan is [C, B]; when "B" is *)
(* a barrier name the plan is [C]; when C also holds an unrelated file the *)
(* plan is [].                                                             *)
(***************************************************************************)
C11_ExamplePlans ==
    \A r \in Reqs :
        /\ (ChainOnly(r) /\ NoBarrierConfigured) =>
              foldersToDelete[r] = <<"A/B/C", "A/B">>
        /\ (ChainOnly(r) /\ IsBarrierName(<<"B">>) /\ ~IsBarrierName(<<"C">>)) =>
              foldersToDelete[r] = <<"A/B/C">>
        /\ (/\ Planned(r)
            /\ targetFile[r] = "A/B/C/file.png"
            /\ "A/B/C/other.png" \in exists) =>
              foldersToDelete[r] = <<>>

(***************************************************************************)
(* C11, amended. A is a folder below the vault root: with no barrier name  *)
(* configured the plan is [C, B] when A holds another file besides B, and  *)
(* [C, B, A] when A holds only B; when "B" is a barrier name the plan is   *)
(* [C]; when C also holds an unrelated file the plan is [].                *)
(***************************************************************************)
C11_ExamplePlansWithA ==
    \A r \in Reqs :
        /\ (ChainOnly(r) /\ NoBarrierConfigured /\ "A/keep.png" \in exists) =>
              foldersToDelete[r] = <<"A/B/C", "A/B">>
        /\ (ChainOnly(r) /\ NoBarrierConfigured /\ ChildrenOf("A") = {"A/B"}) =>
              foldersToDelete[r] = <<"A/B/C", "A/B", "A">>
        /\ (ChainOnly(r) /\ IsBarrierName(<<"B">>) /\ ~IsBarrierName(<<"C">>)) =>
              foldersToDelete[r] = <<"A/B/C">>
        /\ (/\ Planned(r)
            /\ targetFile[r] = "A/B/C/file.png"
            /\ "A/B/C/other.png" \in exists) =>
              foldersToDelete[r] = <<>>

\* the chain alone below A, no barrier name: the plan reaches A
C11_Witness ==
    \E r \in Reqs :
        /\ ChainOnly(r)
        /\ NoBarrierConfigured
        /\ ChildrenOf("A") = {"A/B"}
        /\ foldersToDelete[r] = <<"A/B/C", "A/B", "A">>


(***************************************************************************)
(* C12. System-noise files never block a folder from counting as empty:    *)
(* plans computed for the same target in vaults that differ only by files  *)
(* named .DS_Store, Thumbs.db or Desktop.ini in the folders above the      *)
(* target are the same plan.                                               *)
(***************************************************************************)
C12_NoiseLeavesPlan ==
    \A r, q \in Reqs :
        (Planned(r) /\ Planned(q) /\ targetFile[r] = targetFile[q]) =>
            foldersToDelete[r] = foldersToDelete[q]

\* every request planned file.png, the first one before any noise file existed and
\* the last one with a noise file in each of C, B and A: the plan is [C, B, A]
C12_Witness ==
    /\ \A r \in Reqs :
          /\ Planned(r)
          /\ targetFile[r] = "A/B/C/file.png"
          /\ foldersToDelete[r] = <<"A/B/C", "A/B", "A">>
    /\ {"A/B/C/.DS_Store", "A/B/Thumbs.db", "A/Desktop.ini"} \subseteq exists

(***************************************************************************)
(* Properties of the orchestrator.                                         *)
(***************************************************************************)
\* r is between taking the lock and releasing it
Executing(r) == pc[r] \in {"deleting", "cascade"}

\* r went through executeDelete past its guard
Executed(r) == fileOps[r] # <<>>

\* the folders r issued a deletion command for
FolderCommands(r) == {i \in 1..Len(fileOps[r]) : fileOps[r][i].node \in Folders}

(***************************************************************************)
(* C1. Single flight: at most one executeDelete is between taking the lock *)
(* and releasing it, and isProcessing is true exactly while one is.        *)
(***************************************************************************)
C1_SingleFlight ==
    /\ Cardinality({r \in Reqs : Executing(r)}) <= 1
    /\ isProcessing <=> \E r \in Reqs : Executing(r)

\* one execution in its cascade while a modal answer of another request was
\* turned away by the guard
C1_Witness ==
    \E r, q \in Reqs :
        /\ pc[r] = "cascade"
        /\ pc[q] = "ignored"
        /\ isProcessing

(***************************************************************************)
(* C2. A menu click or a modal answer that arrives while the lock is held  *)
(* has no effect: no deletion call, no text edit, no notice, and the lock, *)
(* the vault and the execution in progress stay as they are.               *)
(***************************************************************************)
C2_NoEffectWhileLocked ==
    [][\A r \in Reqs :
          (isProcessing /\ pc[r] \in {"menu", "modal"} /\ pc'[r] # pc[r]) =>
              /\ UNCHANGED <<exists, docText, isProcessing, fileOps, edits, notices,
                             targetFile, refData, foldersToDelete, deleteFolders,
                             folderIdx>>
              /\ \A q \in Reqs \ {r} : pc'[q] = pc[q]]_vars

\* a click dropped while the lock is held, on a link that no longer resolves
C2_Witness ==
    \E r \in Reqs :
        /\ pc[r] = "dropped"
        /\ isProcessing
        /\ getFirstLinkpathDest(linkInfo[r].linkText) = Null

(***************************************************************************)
(* C3. Every folder a deletion command is issued for is not the root, has  *)
(* no barrier name in the settings as they are and, while the command is   *)
(* pending, holds nothing but system-noise files.                          *)
(***************************************************************************)
C3_CascadeDeletesOnlyEmptyUnprotected ==
    \A r \in Reqs :
        pc[r] = "cascade" =>
            LET d == fileOps[r][Len(fileOps[r])].node
            IN  /\ d \in Folders
                /\ d # Root
                /\ ~IsBarrierName(Name[d])
                /\ \A c \in ChildrenOf(d) : NoiseFile(c)

(***************************************************************************)
(* C3, with the barrier names read where the code reads them. The plan of   *)
(* a request is made in the step that leaves the menu and stays as it is;   *)
(* every folder of it is not the root and has no barrier name in the        *)
(* settings of that step; and every folder a deletion command is issued for *)
(* is a folder of the plan and, while the command is pending, holds nothing *)
(* but system-noise files.                                                  *)
(***************************************************************************)
C3_CascadeDeletesOnlyEmptyUnprotectedAsPlanned ==
    [][\A r \in Reqs :
          /\ pc[r] = "menu" =>
                \A k \in 1..Len(foldersToDelete'[r]) :
                    /\ foldersToDelete'[r][k] \in Folders
                    /\ foldersToDelete'[r][k] # Root
                    /\ ~IsBarrierName(Name[foldersToDelete'[r][k]])
          /\ pc[r] \notin {"idle", "menu"} => foldersToDelete'[r] = foldersToDelete[r]
          /\ pc'[r] = "cascade" =>
                LET d == fileOps'[r][Len(fileOps'[r])].node
                IN  /\ \E k \in 1..Len(foldersToDelete'[r]) : foldersToDelete'[r][k] = d
                    /\ \A c \in exists' : Parent[c] = d => NoiseFile(c)]_vars

\* the plan B/C, B was made with the folder A/B holding a noise file and no barrier
\* of its name; B was named a barrier under the modal, 'all' was answered and the
\* deletion of A/B has been commanded
C3_Witness ==
    \E r \in Reqs :
        /\ pc[r] = "cascade"
        /\ fileOps[r][Len(fileOps[r])].node = "A/B"
        /\ IsBarrierName(Name["A/B"])
        /\ \E c \in ChildrenOf("A/B") : NoiseFile(c)

(***************************************************************************)
(* C4. Confirmation gating: with cascading and warnings on and a plan of   *)
(* at least warningThreshold folders, a request does nothing until the     *)
(* modal is answered, deletes folders only after the answer "all", and     *)
(* after "cancel" never deletes, edits, locks or notifies.                 *)
(***************************************************************************)
C4_ConfirmationGate ==
    \A r \in Reqs :
        (/\ settings.enableCascade
         /\ settings.enableWarning
         /\ Len(foldersToDelete[r]) >= settings.warningThreshold.val) =>
            /\ choice[r] \in {"none", "cancel"} =>
                  /\ pc[r] \in {"modal", "cancelled"}
                  /\ fileOps[r] = <<>>
                  /\ edits[r] = 0
                  /\ notices[r] = <<>>
                  /\ ~deleteFolders[r]
            /\ choice[r] = "cancel" => pc[r] = "cancelled"
            /\ (deleteFolders[r] \/ FolderCommands(r) # {}) => choice[r] = "all"

\* one modal cancelled, another answered "all" and now deleting folders
C4_Witness ==
    \E r, q \in Reqs :
        /\ choice[r] = "cancel"
        /\ Len(foldersToDelete[r]) >= settings.warningThreshold.val
        /\ choice[q] = "all"
        /\ pc[q] = "cascade"

(***************************************************************************)
(* C5. An execution removes the link span only after the deletion of the   *)
(* attachment returned; when that deletion throws, the execution never     *)
(* edits the text.                                                         *)
(***************************************************************************)
C5_TextEditedOnlyAfterDeletion ==
    \A r \in Reqs :
        Executed(r) =>
            /\ edits[r] <= 1
            /\ edits[r] > 0 =>
                  /\ fileOps[r][1].res = Returned
                  /\ targetFile[r] \notin exists
            /\ fileOps[r][1].res \in Thrown => edits[r] = 0
            /\ fileOps[r][1].res = Pending => edits[r] = 0

\* the deletion threw: the file is still in the vault and the text as it was
C5_Witness ==
    \E r \in Reqs :
        /\ pc[r] = "failed"
        /\ fileOps[r][1].res \in Thrown
        /\ targetFile[r] \in exists
        /\ edits[r] = 0
        /\ \A q \in Reqs : edits[q] = 0

(***************************************************************************)
(* C6. When the deletion of the attachment throws an error whose message   *)
(* says busy, the text is not edited, no folder command is issued, the     *)
(* only notice is the busy one, nothing is retried and the lock is free    *)
(* when the execution has ended.                                           *)
(***************************************************************************)
C6_BusyDeletion ==
    \A r \in Reqs :
        (/\ Executed(r)
         /\ ~fileOps[r][1].res.ok
         /\ fileOps[r][1].res # Pending
         /\ SaysBusy(fileOps[r][1].res.msg)) =>
            /\ pc[r] = "failed"
            /\ edits[r] = 0
            /\ Len(fileOps[r]) = 1
            /\ notices[r] = <<Notice("busy", 0)>>
            /\ (\A q \in Reqs : ~Executing(q)) => ~isProcessing

\* the deletion threw "Busy", which only the lower-cased test recognises
C6_Witness ==
    \E r \in Reqs :
        /\ pc[r] = "failed"
        /\ fileOps[r][1].res = [ok |-> FALSE, msg |-> <<"B", "u", "s", "y">>]
        /\ ~isProcessing


\* r passed the reference check: its plan was computed and the gate has decided
Decided(r) ==
    pc[r] \in {"modal", "cancelled", "ignored", "deleting", "cascade", "done", "failed"}

(***************************************************************************)
(* C13. The decision of the gate is a function of enableCascade,           *)
(* enableWarning, warningThreshold and the length of the plan: file-only   *)
(* when cascading is off or the plan is empty; else the full cascade       *)
(* without a question when warnings are off or the length is below the     *)
(* threshold; else the modal. A length equal to the threshold asks.        *)
(***************************************************************************)
C13_GateDecision ==
    \A r \in Reqs :
        Decided(r) =>
            LET n == Len(foldersToDelete[r])
                asked == choice[r] # "none" \/ pc[r] = "modal"
            IN  IF ~settings.enableCascade \/ n = 0
                THEN ~asked /\ Executed(r) /\ ~deleteFolders[r]
                ELSE IF ~settings.enableWarning \/ n < settings.warningThreshold.val
                THEN ~asked /\ Executed(r) /\ deleteFolders[r]
                ELSE /\ asked
                     /\ choice[r] = "none" => ~Executed(r)

\* a plan of two folders at a threshold of two: the modal is open, nothing done
C13_Witness ==
    \E r \in Reqs :
        /\ pc[r] = "modal"
        /\ settings.enableWarning
        /\ settings.warningThreshold = Number(2)
        /\ Len(foldersToDelete[r]) = 2
        /\ ~Executed(r)


(***************************************************************************)
(* C14. The modal answered with file-only while the lock is free: the      *)
(* execution issues one deletion command, for the attachment, and none for *)
(* a folder; its steps leave every folder of the vault in place; when the  *)
(* deletion returns the link span is removed once and the one notice is    *)
(* "attachment deleted".                                                   *)
(***************************************************************************)
C14_FileOnlyAnswer ==
    [][\A r \in Reqs :
          (choice'[r] = "file_only" /\ pc'[r] # pc[r] /\ pc'[r] # "ignored") =>
              /\ pc'[r] \in {"deleting", "done", "failed"}
              /\ ~deleteFolders'[r]
              /\ Len(fileOps'[r]) = 1
              /\ fileOps'[r][1].node = targetFile[r]
              /\ exists' \cap Folders = exists \cap Folders
              /\ exists \ exists' \subseteq {targetFile[r]}
              /\ pc'[r] = "deleting" =>
                    /\ exists' = exists
                    /\ edits'[r] = 0
                    /\ docText' = docText
                    /\ notices'[r] = <<>>
              /\ pc'[r] = "done" =>
                    /\ fileOps'[r][1].res = [ok |-> TRUE, msg |-> <<>>]
                    /\ targetFile[r] \notin exists'
                    /\ edits'[r] = 1
                    /\ notices'[r] = <<[kind |-> "deleted", n |-> 0]>>]_vars

\* a plan of three folders, file-only answered, the execution done: the file is
\* gone, C, B and A are there, and the line has lost the embed of file.png
C14_Witness ==
    \E r \in Reqs :
        /\ choice[r] = "file_only"
        /\ pc[r] = "done"
        /\ foldersToDelete[r] = <<"A/B/C", "A/B", "A">>
        /\ {"A/B/C", "A/B", "A"} \subseteq exists
        /\ "A/B/C/file.png" \notin exists
        /\ docText = <<"[", "o", "]", "(", "o", "t", "h", "e", "r", ".", "p", "n", "g", ")">>
        /\ notices[r] = <<[kind |-> "deleted", n |-> 0]>>


\* the notes whose resolved links name the target
Referrers(target) ==
    {src \in DOMAIN resolvedLinks : target \in DOMAIN resolvedLinks[src]}

\* the link occurrences that name the target, over all notes
Occurrences(target) ==
    UNION {{<<src, k>> : k \in 1..resolvedLinks[src][target]} : src \in Referrers(target)}

\* the text without the characters from offset a up to offset b
CutSpan(text, a, b) ==
    LET from == IF a < Len(text) THEN a ELSE Len(text)
        to == IF b < Len(text) THEN b ELSE Len(text)
    IN  [i \in 1..(Len(text) - (to - from)) |->
            IF i <= from THEN text[i] ELSE text[i + (to - from)]]

(***************************************************************************)
(* C15. MultiplyReferenced: a request whose reference summary counts more  *)
(* than one note or more than one occurrence removes the span of the       *)
(* clicked link and shows the multiply-referenced notice; it issues no     *)
(* deletion command, computes no plan, opens no modal and leaves the lock  *)
(* and the vault. A deletion command is issued only by a request whose     *)
(* summary has a totalCount of at most 1.                                  *)
(***************************************************************************)
C15_MultiplyReferenced ==
    [][\A r \in Reqs :
          /\ (refData'[r].fileCount > 1 \/ refData'[r].totalCount > 1) =>
                /\ pc'[r] \in {"multi", "threw"}
                /\ fileOps'[r] = <<>>
                /\ foldersToDelete'[r] = <<>>
                /\ choice'[r] = "none"
                /\ pc'[r] = "multi" =>
                      /\ edits'[r] = 1
                      /\ Len(notices'[r]) = 1
                      /\ notices'[r][1].kind \in {"multi", "multi_local"}
                      /\ notices'[r][1].n = refData'[r].totalCount
                /\ (pc[r] = "menu" /\ pc'[r] = "multi") =>
                      /\ docText' = CutSpan(docText, linkInfo[r].start.ch,
                                            linkInfo[r].end.ch)
                      /\ exists' = exists
                      /\ isProcessing' = isProcessing
          /\ (fileOps'[r] # <<>> \/ pc'[r] = "modal") =>
                refData'[r].totalCount \in {0, 1}]_vars

\* file.png embedded twice in the note: the first embed is gone from the line,
\* the file and its folders are in the vault, the notice counts 2
C15_Witness ==
    \E r \in Reqs :
        /\ pc[r] = "multi"
        /\ refData[r].totalCount = 2
        /\ refData[r].fileCount = 1
        /\ notices[r] = <<[kind |-> "multi_local", n |-> 2]>>
        /\ docText = <<"!", "[", "[", "f", "i", "l", "e", ".", "p", "n", "g", "|", "a", "]", "]">>
        /\ targetFile[r] \in exists
        /\ \A q \in Reqs : fileOps[q] = <<>>


(***************************************************************************)
(* C17. The summary a request computes is taken from the index as it is at *)
(* that request: totalCount is the number of link occurrences that name    *)
(* the target over all notes, fileCount the number of notes that name it,  *)
(* files those notes. One occurrence in one note gives (1, 1), two in one  *)
(* note give (2, 1).                                                       *)
(***************************************************************************)
C17_ReferenceSummary ==
    [][\A r \in Reqs :
          refData'[r] # refData[r] =>
              /\ refData'[r].totalCount = Cardinality(Occurrences(targetFile'[r]))
              /\ refData'[r].fileCount = Cardinality(Referrers(targetFile'[r]))
              /\ refData'[r].files = Referrers(targetFile'[r])]_vars

\* file.png embedded twice: the first request counted (2, 1) and removed one embed,
\* the host re-resolved the note, and a later request counted (1, 1)
C17_Witness ==
    \E r, q \in Reqs :
        /\ targetFile[r] = targetFile[q]
        /\ refData[r] = [totalCount |-> 2, fileCount |-> 1, files |-> {"note.md"}]
        /\ refData[q] = [totalCount |-> 1, fileCount |-> 1, files |-> {"note.md"}]


\* the link text names a file that the vault has
Resolves(linkText) == \E f \in exists \cap Files : Name[f] = linkText

(***************************************************************************)
(* C16. LinkNotFound: a click, with the lock free, on a link whose text    *)
(* names no file of the vault shows the not-found notice and removes the   *)
(* span of the link; it counts no references, computes no plan, opens no   *)
(* modal, issues no deletion command and leaves the lock and the vault.    *)
(***************************************************************************)
C16_LinkNotFound ==
    [][\A r \in Reqs :
          (/\ pc[r] = "menu"
           /\ pc'[r] # "menu"
           /\ ~isProcessing
           /\ ~Resolves(linkInfo[r].linkText)) =>
              /\ pc'[r] \in {"notfound", "threw"}
              /\ notices'[r] = <<[kind |-> "notfound", n |-> 0]>>
              /\ pc'[r] = "notfound" =>
                    /\ docText' = CutSpan(docText, linkInfo[r].start.ch,
                                          linkInfo[r].end.ch)
                    /\ edits'[r] = 1
              /\ pc'[r] = "threw" => docText' = docText /\ edits'[r] = 0
              /\ fileOps' = fileOps
              /\ fileOps'[r] = <<>>
              /\ refData'[r].totalCount = -1
              /\ foldersToDelete'[r] = <<>>
              /\ choice'[r] = "none"
              /\ exists' = exists
              /\ ~isProcessing']_vars

\* the embed of gone.png, a file the vault never had: the embed is off the line,
\* the embed of other.png stays
C16_Witness ==
    \E r \in Reqs :
        /\ pc[r] = "notfound"
        /\ linkInfo[r].linkText = <<"g", "o", "n", "e", ".", "p", "n", "g">>
        /\ docText = <<"!", "[", "[", "o", "t", "h", "e", "r", ".", "p", "n", "g", "]", "]">>
        /\ notices[r] = <<[kind |-> "notfound", n |-> 0]>>

(***************************************************************************)
(* C18. As claimed: no failure of a collaborator leaves a request: every   *)
(* request ends inside processDeleteRequest or the modal callback, none    *)
(* with an exception thrown to the caller of the click handler.            *)
(***************************************************************************)
C18_NothingPropagates ==
    \A r \in Reqs : pc[r] # "threw"


(***************************************************************************)
(* C19. An execution that took the lock shows no notice while it holds the *)
(* lock and exactly one when it releases it: after a full success the      *)
(* "attachment deleted" notice when the cascade branch was not taken, else *)
(* the "N folders" notice, never both; after a failure one error notice,   *)
(* busy or generic, and no success notice.                                 *)
(***************************************************************************)
C19_OneNoticePerExecution ==
    \A r \in Reqs :
        Executed(r) =>
            /\ pc[r] \in {"deleting", "cascade", "done", "failed"}
            /\ Executing(r) => notices[r] = <<>>
            /\ pc[r] = "done" =>
                  /\ Len(notices[r]) = 1
                  /\ IF deleteFolders[r] /\ foldersToDelete[r] # <<>>
                     THEN /\ notices[r][1].kind = "cascade"
                          /\ notices[r][1].n = Len(foldersToDelete[r])
                     ELSE notices[r][1].kind = "deleted"
            /\ pc[r] = "failed" =>
                  /\ Len(notices[r]) = 1
                  /\ notices[r][1].kind \in {"busy", "failed"}

\* one execution ended with the notice of two folders, another failed on its
\* attachment with the generic error notice
C19_Witness ==
    \E r, q \in Reqs :
        /\ pc[r] = "done"
        /\ notices[r] = <<[kind |-> "cascade", n |-> 2]>>
        /\ pc[q] = "failed"
        /\ notices[q] = <<[kind |-> "failed", n |-> 0]>>


\* a character that is no bracket and no parenthesis
Plain(c) == c \notin {"[", "]", "(", ")"}

\* the offset at which a link that starts at a has its first bracket: a link
\* starts at its "!" when it has one
AfterBang(text, a) ==
    IF a < Len(text) /\ text[a + 1] = "!" THEN a + 1
    ELSE IF a >= 1 /\ text[a] = "!" THEN -1
    ELSE a

\* the characters from offset a up to offset b are a wiki link: [[ ]] around a
\* text without brackets, after an optional "!"
IsWikiSpan(text, a, b) ==
    LET j == AfterBang(text, a)
    IN  /\ j >= 0
        /\ j + 4 <= b
        /\ b <= Len(text)
        /\ text[j + 1] = "[" /\ text[j + 2] = "["
        /\ text[b - 1] = "]" /\ text[b] = "]"
        /\ \A k \in (j + 3)..(b - 2) : Plain(text[k])

\* the characters from offset a up to offset b are a markdown link: [label](target)
\* with label and target free of brackets and parentheses, after an optional "!"
IsMdSpan(text, a, b) ==
    LET j == AfterBang(text, a)
    IN  /\ j >= 0
        /\ j + 4 <= b
        /\ b <= Len(text)
        /\ text[j + 1] = "["
        /\ text[b] = ")"
        /\ \E m \in (j + 2)..(b - 2) :
              /\ text[m] = "]" /\ text[m + 1] = "("
              /\ \A k \in ((j + 2)..(b - 1)) \ {m, m + 1} : Plain(text[k])

IsLinkSpan(text, a, b) == IsWikiSpan(text, a, b) \/ IsMdSpan(text, a, b)

Located(r) == pc[r] = "located"

(***************************************************************************)
(* C20. As claimed: for a cursor offset strictly inside a well-formed wiki *)
(* or markdown link of the line, getLinkUnderCursor returns the span from  *)
(* the first to behind the last character of that link; for an offset     *)
(* that no link of the line contains or touches it returns none.           *)
(***************************************************************************)
C20_SpanUnderCursor ==
    \A r \in Reqs :
        Located(r) =>
            /\ \A a, b \in 0..Len(docText) :
                  (IsLinkSpan(docText, a, b) /\ a < cursorCh[r] /\ cursorCh[r] < b) =>
                      /\ linkInfo[r].start = [line |-> 0, ch |-> a]
                      /\ linkInfo[r].end = [line |-> 0, ch |-> b]
            /\ (\A a, b \in 0..Len(docText) :
                   IsLinkSpan(docText, a, b) => (cursorCh[r] < a \/ b < cursorCh[r])) =>
                      linkInfo[r].start.ch = -1


\* the positions of the deletion commands of r that returned
ReturnedOps(r) ==
    {i \in 1..Len(fileOps[r]) : fileOps[r][i].res = [ok |-> TRUE, msg |-> <<>>]}

(***************************************************************************)
(* C21. As claimed: an execution that ended with the busy notice has not   *)
(* removed the link span, has not deleted the attachment and has not       *)
(* deleted a folder.                                                       *)
(***************************************************************************)
C21_BusyLeavesAllUntouched ==
    \A r \in Reqs :
        (pc[r] = "failed" /\ notices[r] = <<[kind |-> "busy", n |-> 0]>>) =>
            /\ edits[r] = 0
            /\ ReturnedOps(r) = {}


\* the position of folder d in the plan of r
PlanIndex(r, d) == CHOOSE k \in 1..Len(foldersToDelete[r]) : foldersToDelete[r][k] = d

(***************************************************************************)
(* C22. Order of the steps of an execution: it takes the lock and issues   *)
(* the deletion of the attachment, then removes the link span, then        *)
(* deletes folders, then releases the lock, or fails at one of these steps *)
(* and releases the lock. Folder commands are issued only with the full    *)
(* cascade chosen and a plan that is not empty, only after the deletion of *)
(* the attachment returned and the span was removed, one after the other   *)
(* in the order of the plan.                                               *)
(***************************************************************************)
C22_StepOrder ==
    [][\A r \in Reqs :
          /\ fileOps'[r] # <<>> => fileOps'[r][1].node = targetFile'[r]
          /\ Len(fileOps'[r]) >= 2 =>
                /\ deleteFolders'[r]
                /\ foldersToDelete'[r] # <<>>
                /\ fileOps'[r][1].res = [ok |-> TRUE, msg |-> <<>>]
                /\ edits'[r] = 1
                /\ \A i \in 2..Len(fileOps'[r]) :
                      /\ \E k \in 1..Len(foldersToDelete'[r]) :
                            foldersToDelete'[r][k] = fileOps'[r][i].node
                      /\ i < Len(fileOps'[r]) =>
                            fileOps'[r][i].res = [ok |-> TRUE, msg |-> <<>>]
                      /\ \A j \in 2..(i - 1) :
                            PlanIndex(r, fileOps'[r][j].node)
                                < PlanIndex(r, fileOps'[r][i].node)
          /\ (pc'[r] # pc[r] /\ pc'[r] = "deleting") =>
                /\ pc[r] \in {"menu", "modal"}
                /\ ~isProcessing /\ isProcessing'
                /\ edits'[r] = 0
          /\ (pc'[r] # pc[r] /\ pc'[r] = "cascade") =>
                /\ pc[r] = "deleting"
                /\ isProcessing /\ isProcessing'
          /\ (pc'[r] # pc[r] /\ pc'[r] \in {"done", "failed"}) =>
                /\ pc[r] \in {"deleting", "cascade"}
                /\ isProcessing /\ ~isProcessing'
          /\ pc[r] = "cascade" => pc'[r] \in {"cascade", "done", "failed"}
          /\ pc[r] \in {"done", "failed"} =>
                pc'[r] = pc[r] /\ fileOps'[r] = fileOps[r] /\ edits'[r] = edits[r]]_vars

\* a full cascade done: the file, then C, then B, then A, each returned
C22_Witness ==
    \E r \in Reqs :
        /\ pc[r] = "done"
        /\ edits[r] = 1
        /\ [i \in 1..Len(fileOps[r]) |-> fileOps[r][i].node]
              = <<"A/B/C/file.png", "A/B/C", "A/B", "A">>
        /\ ReturnedOps(r) = 1..4


(***************************************************************************)
(* C23. In the cascade every planned folder is looked up by its path when  *)
(* its turn comes: a folder that the vault no longer has gets no deletion  *)
(* command, raises no error and no notice, and the loop goes on with the   *)
(* folders after it; when no folder is left the execution ends with the    *)
(* success notice of the cascade.                                          *)
(***************************************************************************)
C23_UnresolvedFolderSkipped ==
    [][\A r \in Reqs :
          (/\ pc[r] \in {"deleting", "cascade"}
           /\ pc'[r] \in {"cascade", "done"}
           /\ deleteFolders[r]
           /\ foldersToDelete[r] # <<>>
           /\ <<pc'[r], fileOps'[r]>> # <<pc[r], fileOps[r]>>) =>
              LET plan == foldersToDelete[r]
                  from == IF pc[r] = "deleting" THEN 0 ELSE PlanIndex(r, fileOps[r][Len(fileOps[r])].node)
              IN  IF pc'[r] = "cascade"
                  THEN /\ Len(fileOps'[r]) = Len(fileOps[r]) + 1
                       /\ notices'[r] = <<>>
                       /\ \E j \in (from + 1)..Len(plan) :
                             /\ fileOps'[r][Len(fileOps'[r])].node = plan[j]
                             /\ plan[j] \in exists'
                             /\ \A k \in (from + 1)..(j - 1) : plan[k] \notin exists'
                  ELSE /\ Len(fileOps'[r]) = Len(fileOps[r])
                       /\ \A k \in (from + 1)..Len(plan) : plan[k] \notin exists'
                       /\ notices'[r] = <<[kind |-> "cascade", n |-> Len(plan)]>>]_vars

\* a plan of C, B and A where C was gone when its turn came: commands for B and A
\* only, and the success notice
C23_Witness ==
    \E r \in Reqs :
        /\ pc[r] = "done"
        /\ foldersToDelete[r] = <<"A/B/C", "A/B", "A">>
        /\ [i \in 1..Len(fileOps[r]) |-> fileOps[r][i].node]
              = <<"A/B/C/file.png", "A/B", "A">>
        /\ notices[r] = <<[kind |-> "cascade", n |-> 3]>>


(***************************************************************************)
(* C24. No rollback: when a step after the deletion of the attachment      *)
(* throws (the text edit, or the deletion of a planned folder), the step   *)
(* that fails restores nothing: the attachment and the folders deleted so  *)
(* far stay deleted and a span already removed stays removed; one error    *)
(* notice is shown, the lock is released, and the execution issues no      *)
(* further command.                                                        *)
(***************************************************************************)
C24_NoRollback ==
    [][\A r \in Reqs :
          /\ (/\ pc[r] \in {"deleting", "cascade"}
              /\ pc'[r] = "failed"
              /\ fileOps'[r][1].res = [ok |-> TRUE, msg |-> <<>>]) =>
                /\ targetFile[r] \notin exists'
                /\ exists' \subseteq exists
                /\ \A i \in 1..Len(fileOps'[r]) :
                      fileOps'[r][i].res = [ok |-> TRUE, msg |-> <<>>] =>
                          fileOps'[r][i].node \notin exists'
                /\ docText' = docText
                /\ edits'[r] = edits[r]
                /\ pc[r] = "cascade" => exists' = exists /\ edits'[r] = 1
                /\ Len(fileOps'[r]) = Len(fileOps[r])
                /\ Len(notices'[r]) = 1
                /\ notices'[r][1].kind \in {"busy", "failed"}
                /\ ~isProcessing'
          /\ pc[r] = "failed" =>
                /\ pc'[r] = "failed"
                /\ fileOps'[r] = fileOps[r]
                /\ edits'[r] = edits[r]
                /\ notices'[r] = notices[r]]_vars

\* the file and C deleted, the span removed, the deletion of B thrown: B and A
\* are in the vault and the execution has ended
C24_Witness ==
    \E r \in Reqs :
        /\ pc[r] = "failed"
        /\ ReturnedOps(r) = {1, 2}
        /\ Len(fileOps[r]) = 3
        /\ fileOps[r][3].node = "A/B"
        /\ edits[r] = 1
        /\ {"A/B/C/file.png", "A/B/C"} \cap exists = {}
        /\ {"A/B", "A"} \subseteq exists
        /\ ~isProcessing


(***************************************************************************)
(* C25. An open modal does not hold the lock: while a modal is open and no *)
(* execution is in progress the lock is free, and a click that arrives     *)
(* then is processed, not dropped; the lock is taken only in the step in   *)
(* which a modal is answered with file-only or all, or in which a click is *)
(* decided without a modal, and that step starts the execution.            *)
(***************************************************************************)
C25_ModalHoldsNoLock ==
    [][/\ ((\E r \in Reqs : pc'[r] = "modal") /\ (\A r \in Reqs : ~(pc'[r] \in {"deleting", "cascade"}))) =>
             ~isProcessing'
       /\ \A r \in Reqs :
             (/\ pc[r] = "menu"
              /\ pc'[r] # "menu"
              /\ \E q \in Reqs : pc[q] = "modal"
              /\ \A q \in Reqs : ~(pc[q] \in {"deleting", "cascade"})) =>
                 pc'[r] # "dropped"
       /\ (~isProcessing /\ isProcessing') =>
             \E r \in Reqs :
                 /\ pc'[r] = "deleting"
                 /\ \/ pc[r] = "modal" /\ choice'[r] \in {"file_only", "all"}
                    \/ pc[r] = "menu" /\ choice'[r] = "none"
       /\ \A r \in Reqs : (pc[r] # "modal" /\ pc'[r] = "modal") => isProcessing' = isProcessing]_vars

\* two modals open at once, nothing deleted, the lock free
C25_Witness ==
    \E r, q \in Reqs :
        /\ r # q
        /\ pc[r] = "modal"
        /\ pc[q] = "modal"
        /\ ~isProcessing
        /\ \A p \in Reqs : fileOps[p] = <<>>


\* the deletion commands issued for node n, over all requests, those that threw
\* aside (after a failed deletion the user may ask again)
CommandsFor(n) ==
    {<<r, i>> \in Reqs \X (1..(Cardinality(Folders) + 1)) :
        /\ i <= Len(fileOps[r])
        /\ fileOps[r][i].node = n
        /\ fileOps[r][i].res.ok \/ fileOps[r][i].res.msg = <<"p", "e", "n", "d", "i", "n", "g">>}

(***************************************************************************)
(* C28. As claimed: whatever the order of clicks and modal answers, at     *)
(* most one deletion command is issued for the same attachment (a command  *)
(* that failed aside), and no request removes its link span more than      *)
(* once.                                                                   *)
(***************************************************************************)
C28_OneDeletionPerAttachment ==
    /\ \A f \in Files : Cardinality(CommandsFor(f)) <= 1
    /\ \A r \in Reqs : edits[r] <= 1

(***************************************************************************)
(* C29. As claimed: the N of the cascade success notice is the number of   *)
(* folders for which the execution issued a deletion command that          *)
(* returned.                                                               *)
(***************************************************************************)
C29_NoticeCountsDeletedFolders ==
    \A r \in Reqs :
        (pc[r] = "done" /\ notices[r] # <<>> /\ notices[r][1].kind = "cascade") =>
            notices[r][1].n =
                Cardinality({i \in ReturnedOps(r) : fileOps[r][i].node \in Folders})


\* the threshold of the gate is a whole number, one at least
ThresholdValid(st) ==
    \/ st.warningThreshold.kind = "int" /\ st.warningThreshold.val >= 1
    \/ st.warningThreshold.kind = "big" /\ ~st.warningThreshold.neg

(***************************************************************************)
(* C27. As claimed: warningThreshold is an integer >= 1 in every reachable *)
(* state, in the settings loaded at startup (stored data over the          *)
(* defaults), after any sequence of changes in the settings tab, and in    *)
(* what a later startup loads from the data the changes have stored.       *)
(***************************************************************************)
C27_ThresholdInteger ==
    /\ ThresholdValid(settings)
    /\ ThresholdValid(loadSettings(persisted))

(***************************************************************************)
(* C26. The plan is computed once per request and not computed again after *)
(* the confirmation: from the opening of the modal on, the plan, the       *)
(* reference data and the target of the request stay as they were computed; *)
(* the answer 'all' starts the execution (or is ignored under the lock)    *)
(* without a look at the index or the settings; and the execution attempts *)
(* the folders of that plan in its order, passing over only the paths that *)
(* no longer resolve, whatever the vault, the index and the settings have  *)
(* become while the modal was open.                                        *)
(***************************************************************************)
C26_PlanNotRecomputed ==
    [][\A r \in Reqs :
          /\ pc[r] \in {"modal", "deleting", "cascade"} =>
                /\ foldersToDelete'[r] = foldersToDelete[r]
                /\ refData'[r] = refData[r]
                /\ targetFile'[r] = targetFile[r]
          /\ (pc[r] = "modal" /\ choice'[r] = "all") =>
                IF isProcessing
                THEN pc'[r] = "ignored" /\ fileOps'[r] = fileOps[r]
                ELSE /\ pc'[r] = "deleting"
                     /\ deleteFolders'[r]
                     /\ Len(fileOps'[r]) = 1
                     /\ fileOps'[r][1].node = targetFile[r]
          /\ (/\ choice[r] = "all"
              /\ pc[r] \in {"deleting", "cascade"}
              /\ pc'[r] \in {"cascade", "done"}
              /\ <<pc'[r], fileOps'[r]>> # <<pc[r], fileOps[r]>>) =>
                LET plan == foldersToDelete[r]
                    from == IF pc[r] = "deleting" THEN 0 ELSE folderIdx[r]
                IN  IF pc'[r] = "cascade"
                    THEN \E j \in (from + 1)..Len(plan) :
                            /\ fileOps'[r][Len(fileOps'[r])].node = plan[j]
                            /\ Len(fileOps'[r]) = Len(fileOps[r]) + 1
                            /\ plan[j] \in exists'
                            /\ \A k \in (from + 1)..(j - 1) : plan[k] \notin exists'
                    ELSE /\ \A k \in (from + 1)..Len(plan) : plan[k] \notin exists'
                         /\ Len(fileOps'[r]) = Len(fileOps[r])]_vars

\* the modal of a request was opened for the plan C, B, A; under it another file
\* was put into C, another note was linked to the attachment, B was named a barrier
\* and the cascade was switched off; 'all' was answered and the deletion of C has
\* been commanded
C26_Witness ==
    \E r \in Reqs :
        /\ \A q \in Reqs \ {r} : pc[q] = "idle"
        /\ choice[r] = "all"
        /\ pc[r] = "cascade"
        /\ foldersToDelete[r] = <<"A/B/C", "A/B", "A">>
        /\ fileOps[r][Len(fileOps[r])].node = "A/B/C"
        /\ "A/B/C/other.png" \in exists
        /\ "other.md" \in DOMAIN resolvedLinks
        /\ ~settings.enableCascade
        /\ "B" \in stopFolderNames

(***************************************************************************)
(* Liveness. Every call of the vault that an execution awaits eventually   *)
(* returns or throws: the completions are weakly fair.                     *)
(***************************************************************************)
Fairness ==
    \A r \in Reqs : WF_vars(TargetDeleted(r)) /\ WF_vars(FolderDeleted(r))

\* the vault whose two inner folders empty, under each setting of the gate
InitLive ==
    /\ Init
    /\ exists = BaseTree \cup {"A/keep.png"}
    /\ "A/B/C/other.png" \in DOMAIN resolvedLinks["note.md"]
    /\ settings.stopFolders = DEFAULT_SETTINGS.stopFolders
    /\ settings.trashStrategy = DEFAULT_SETTINGS.trashStrategy

SpecLive == InitLive /\ [][Next]_vars /\ Fairness

(***************************************************************************)
(* C7. Guaranteed unlock: every execution that takes the lock ends, by    *)
(* success or by a throw at any step, and the lock it took is released;    *)
(* whenever the lock is held it becomes free again.                        *)
(***************************************************************************)
C7_GuaranteedUnlock ==
    /\ \A r \in Reqs : Executing(r) ~> (pc[r] \in {"done", "failed"})
    /\ isProcessing ~> ~isProcessing

\* an execution that failed while deleting a folder has released the lock, and
\* a later request was accepted and is executing
C7_Witness ==
    \E r, q \in Reqs :
        /\ pc[r] = "failed"
        /\ Len(fileOps[r]) >= 2
        /\ r < q
        /\ Executing(q)

====
